---- MODULE Spec2Model ----
(***************************************************************************)
(* Forwarded-message provenance resolver of the Telegram -> Notion relay   *)
(* bots (bot_hybrid.py, bot_main.py).  One inbound message is received,    *)
(* _analyze_forward_origin builds the ForwardInfo dict, then the           *)
(* attribution helpers _get_tipster_name and _format_forward_response      *)
(* render it.                                                              *)
(*                                                                         *)
(* Representation.                                                         *)
(*   - A Python value that may be None (or a dict key / attribute that may *)
(*     be missing and is read with getattr(.., None) / dict.get) is an     *)
(*     option: <<>> for None, <<v>> for the value v.                       *)
(*   - Python strings are TLA+ strings; the emoji of the reply templates   *)
(*     are written as the ASCII tokens "[fwd]" and "[id]" because string   *)
(*     literals are ASCII here.                                            *)
(*   - datetime objects are records of their calendar fields; isoformat()  *)
(*     is computed from them.                                              *)
(*   - A User or Chat object is a record of its attributes; an object that *)
(*     lacks the attribute id is a record without the field id, and        *)
(*     reading .id from it raises AttributeError.                          *)
(*   - previous is a history variable: the message handled before the      *)
(*     current one and the identifier it was given.  The bots keep nothing *)
(*     of a message; it is recorded only to compare two messages.          *)
(***************************************************************************)
EXTENDS Integers, Sequences, FiniteSets, TLC

VARIABLES bot, message, pc, sender, forwarding, tipster_name,
          forward_response, previous, replies, notion, notion_result, calls,
          steps, page

\* what the handlers do around the resolver: the replies delivered for the
\* current update, the Notion service of the process, the result and the
\* number of the create_bet_entry calls of the current update, the steps the
\* image handler has run, the Notion page fields of bot.py
serviceVars == <<replies, notion, notion_result, calls, steps, page>>

vars ==
    <<bot, message, pc, sender, forwarding, tipster_name, forward_response,
      previous, replies, notion, notion_result, calls, steps, page>>

(***************************************************************************)
(* Options and Python truthiness                                           *)
(***************************************************************************)
None == <<>>

Some(v) == <<v>>

\* truthiness of an optional str: None and "" are falsy
StrTruthy(o) == o # None /\ o[1] # ""

\* truthiness of an optional int: None and 0 are falsy
IntTruthy(o) == o # None /\ o[1] # 0

\* truthiness of an optional bool: None and False are falsy
BoolTruthy(o) == o # None /\ o[1]

\* truthiness of an optional object (User, Chat, MessageOrigin, datetime):
\* only None is falsy
ObjTruthy(o) == o # None

\* f"{x}" of an optional value: None formats as the text None
PyStr(o) == IF o = None THEN "None" ELSE o[1]

\* Python's  a or b  on optional strings: a when a is truthy, otherwise b
StrOr(a, b) == IF StrTruthy(a) THEN a ELSE b

(***************************************************************************)
(* String helpers                                                          *)
(***************************************************************************)
\* s[:n]
Prefix(s, n) == IF Len(s) <= n THEN s ELSE SubSeq(s, 1, n)

StartsWith(s, p) == Len(s) >= Len(p) /\ SubSeq(s, 1, Len(p)) = p

EndsWith(s, p) == Len(s) >= Len(p) /\ SubSeq(s, Len(s) - Len(p) + 1, Len(s)) = p

Contains(s, p) == \E i \in 1..(Len(s) - Len(p) + 1) : SubSeq(s, i, i + Len(p) - 1) = p

WhiteSpace == {" ", "\t", "\n", "\r"}

RECURSIVE lstrip(_)
lstrip(s) ==
    IF Len(s) > 0 /\ SubSeq(s, 1, 1) \in WhiteSpace THEN lstrip(Tail(s)) ELSE s

RECURSIVE rstrip(_)
rstrip(s) ==
    IF Len(s) > 0 /\ SubSeq(s, Len(s), Len(s)) \in WhiteSpace
    THEN rstrip(SubSeq(s, 1, Len(s) - 1))
    ELSE s

\* str.strip()
strip(s) == rstrip(lstrip(s))

\* "_".join(parts)
RECURSIVE join(_, _)
join(sep, parts) ==
    IF Len(parts) = 0 THEN ""
    ELSE IF Len(parts) = 1 THEN parts[1]
    ELSE parts[1] \o sep \o join(sep, Tail(parts))

\* zero padded decimal of a natural, as the %02d / %04d of isoformat
RECURSIVE ZeroPad(_, _)
ZeroPad(n, w) ==
    LET s == ToString(n) IN IF Len(s) >= w THEN s ELSE "0" \o ZeroPad(n, w - 1)

\* datetime.isoformat() of a datetime with microsecond = 0; tz is the UTC
\* offset suffix of an aware datetime ("+00:00") or "" for a naive one
isoformat(d) ==
    ZeroPad(d.year, 4) \o "-" \o ZeroPad(d.month, 2) \o "-" \o ZeroPad(d.day, 2)
    \o "T" \o ZeroPad(d.hour, 2) \o ":" \o ZeroPad(d.minute, 2) \o ":"
    \o ZeroPad(d.second, 2) \o d.tz

\* full_name formatting the halves as they are, f"{first_name} {last_name}"
full_name_without_or(u) ==
    strip(PyStr(u.first_name) \o " " \o PyStr(u.last_name))

\* f"{first_name or ''} {last_name or ''}".strip()
full_name(u) ==
    strip((IF StrTruthy(u.first_name) THEN u.first_name[1] ELSE "") \o " "
          \o (IF StrTruthy(u.last_name) THEN u.last_name[1] ELSE ""))

(***************************************************************************)
(* hashlib.md5 (RFC 1321).  A 32-bit word is the pair <<hi, lo>> of its    *)
(* 16-bit halves, so that no intermediate value leaves the integer range.  *)
(***************************************************************************)
\* In the definitions below  CHOOSE r \in {e(x) : x \in {v}} : TRUE  is e(v)
\* with v evaluated once, before e is.

\* bitwise and of two n-bit naturals
RECURSIVE And16(_, _, _)
And16(a, b, n) ==
    IF n = 0 THEN 0
    ELSE CHOOSE r \in {((p[1] % 2) * (p[2] % 2))
                       + 2 * And16(p[1] \div 2, p[2] \div 2, n - 1) :
                           p \in {<<a, b>>}} : TRUE

WAnd(x, y) == <<And16(x[1], y[1], 16), And16(x[2], y[2], 16)>>

WNot(x) == <<65535 - x[1], 65535 - x[2]>>

WOr(x, y) ==
    <<x[1] + y[1] - And16(x[1], y[1], 16), x[2] + y[2] - And16(x[2], y[2], 16)>>

WXor(x, y) ==
    <<x[1] + y[1] - 2 * And16(x[1], y[1], 16),
      x[2] + y[2] - 2 * And16(x[2], y[2], 16)>>

\* addition modulo 2^32
WAdd(x, y) ==
    LET lo == x[2] + y[2]
    IN  <<(x[1] + y[1] + lo \div 65536) % 65536, lo % 65536>>

RECURSIVE Pow2(_)
Pow2(n) == IF n = 0 THEN 1 ELSE 2 * Pow2(n - 1)

\* left rotation of a 32-bit word by s bits, 0 < s < 32
WRotl(x, s) ==
    LET y == IF s >= 16 THEN <<x[2], x[1]>> ELSE x
        r == s % 16
    IN  IF r = 0 THEN y
        ELSE <<((y[1] * Pow2(r)) % 65536) + (y[2] \div Pow2(16 - r)),
               ((y[2] * Pow2(r)) % 65536) + (y[1] \div Pow2(16 - r))>>

\* the sine table K[i] = floor(2^32 * abs(sin(i + 1)))
MD5_K ==
    <<
       <<55146, 42104>>, <<59591, 46934>>, <<9248, 28891>>, <<49597, 52974>>,
       <<62844, 4015>>, <<18311, 50730>>, <<43056, 17939>>, <<64838, 38145>>,
       <<27008, 39128>>, <<35652, 63407>>, <<65535, 23473>>, <<35164, 55230>>,
       <<27536, 4386>>, <<64920, 29075>>, <<42617, 17294>>, <<18868, 2081>>,
       <<63006, 9570>>, <<49216, 45888>>, <<9822, 23121>>, <<59830, 51114>>,
       <<54831, 4189>>, <<580, 5203>>, <<55457, 59009>>, <<59347, 64456>>,
       <<8673, 52710>>, <<49975, 2006>>, <<62677, 3463>>, <<17754, 5357>>,
       <<43491, 59653>>, <<64751, 41976>>, <<26479, 729>>, <<36138, 19594>>,
       <<65530, 14658>>, <<34673, 63105>>, <<28061, 24866>>, <<64997, 14348>>,
       <<42174, 59972>>, <<19422, 53161>>, <<63163, 19296>>, <<48831, 48240>>,
       <<10395, 32454>>, <<60065, 10234>>, <<54511, 12421>>, <<1160, 7429>>,
       <<55764, 53305>>, <<59099, 39397>>, <<8098, 31992>>, <<50348, 22117>>,
       <<62505, 8772>>, <<17194, 65431>>, <<43924, 9127>>, <<64659, 41017>>,
       <<25947, 22979>>, <<36620, 52370>>, <<65519, 62589>>, <<34180, 24017>>,
       <<28584, 32335>>, <<65068, 59104>>, <<41729, 17172>>, <<19976, 4513>>,
       <<63315, 32386>>, <<48442, 62005>>, <<10967, 53947>>, <<60294, 54161>>
    >>

\* per-round shift amounts
MD5_S ==
    <<
       7, 12, 17, 22, 7, 12, 17, 22, 7, 12, 17, 22, 7, 12, 17, 22,
       5, 9, 14, 20, 5, 9, 14, 20, 5, 9, 14, 20, 5, 9, 14, 20,
       4, 11, 16, 23, 4, 11, 16, 23, 4, 11, 16, 23, 4, 11, 16, 23,
       6, 10, 15, 21, 6, 10, 15, 21, 6, 10, 15, 21, 6, 10, 15, 21
    >>

\* the printable ASCII characters in code order: codes 32..33, 35..91,
\* 93..95 and 97..126 (the double quote, 34, the backslash, 92, and the
\* backquote, 96, are left out)
AsciiLow == " !"

AsciiMid == "#$%&'()*+,-./0123456789:;<=>?@ABCDEFGHIJKLMNOPQRSTUVWXYZ["

AsciiHigh == "]^_"

AsciiLower == "abcdefghijklmnopqrstuvwxyz{|}~"

IndexIn(c, table) == CHOOSE i \in 1..Len(table) : SubSeq(table, i, i) = c

\* str.encode('utf-8') of one ASCII character: its code
Ord(c) ==
    IF Contains(AsciiLow, c) THEN 31 + IndexIn(c, AsciiLow)
    ELSE IF Contains(AsciiMid, c) THEN 34 + IndexIn(c, AsciiMid)
    ELSE IF Contains(AsciiHigh, c) THEN 92 + IndexIn(c, AsciiHigh)
    ELSE 96 + IndexIn(c, AsciiLower)

\* s.encode('utf-8') for an ASCII string: the sequence of its bytes
encode_utf8(s) == [i \in 1..Len(s) |-> Ord(SubSeq(s, i, i))]

\* the single padded 64-byte block of a message of at most 55 bytes
MD5_Block(bytes) ==
    LET n == Len(bytes)
    IN  [i \in 1..64 |->
            IF i <= n THEN bytes[i]
            ELSE IF i = n + 1 THEN 128
            ELSE IF i = 57 THEN (8 * n) % 256
            ELSE IF i = 58 THEN (8 * n) \div 256
            ELSE 0]

\* the 16 little-endian words of a block
MD5_Words(blk) ==
    [g \in 0..15 |-> <<blk[4 * g + 3] + 256 * blk[4 * g + 4],
                       blk[4 * g + 1] + 256 * blk[4 * g + 2]>>]

MD5_Init == <<<<26437, 8961>>, <<61389, 43913>>, <<39098, 56574>>, <<4146, 21622>>>>

\* the round function of step i on the state <<A, B, C, D>>
MD5_F(st, i) ==
    IF i < 16 THEN WOr(WAnd(st[2], st[3]), WAnd(WNot(st[2]), st[4]))
    ELSE IF i < 32 THEN WOr(WAnd(st[4], st[2]), WAnd(WNot(st[4]), st[3]))
    ELSE IF i < 48 THEN WXor(st[2], WXor(st[3], st[4]))
    ELSE WXor(st[3], WOr(st[2], WNot(st[4])))

\* the message word used by step i
MD5_G(i) ==
    IF i < 16 THEN i
    ELSE IF i < 32 THEN (5 * i + 1) % 16
    ELSE IF i < 48 THEN (3 * i + 5) % 16
    ELSE (7 * i) % 16

\* one of the 64 steps on the state <<A, B, C, D>>
MD5_Step(st, M, i) ==
    CHOOSE r \in {<<st[4], WAdd(st[2], WRotl(t, MD5_S[i + 1])), st[2], st[3]>> :
                    t \in {WAdd(WAdd(WAdd(st[1], MD5_F(st, i)), MD5_K[i + 1]),
                                M[MD5_G(i)])}} : TRUE

\* the steps i..n-1, each evaluated on the value of the one before
RECURSIVE MD5_Steps(_, _, _, _)
MD5_Steps(st, M, i, n) ==
    IF i = n THEN st
    ELSE CHOOSE r \in {MD5_Steps(p[1], p[2], p[3], n) :
                         p \in {<<MD5_Step(st, M, i), M, i + 1>>}} : TRUE

\* the four rounds of 16 steps
MD5_Rounds(st, M) ==
    CHOOSE r \in {MD5_Steps(r3, M, 48, 64) :
                    r3 \in {MD5_Steps(r2, M, 32, 48) :
                        r2 \in {MD5_Steps(r1, M, 16, 32) :
                            r1 \in {MD5_Steps(st, M, 0, 16)}}}} : TRUE

HexDigits == "0123456789abcdef"

HexByte(b) ==
    SubSeq(HexDigits, (b \div 16) + 1, (b \div 16) + 1)
    \o SubSeq(HexDigits, (b % 16) + 1, (b % 16) + 1)

\* the 8 hex characters of one state word, bytes in little-endian order
HexWord(w) ==
    HexByte(w[2] % 256) \o HexByte(w[2] \div 256)
    \o HexByte(w[1] % 256) \o HexByte(w[1] \div 256)

\* hashlib.md5(bytes).hexdigest()
md5_hexdigest(bytes) ==
    CHOOSE r \in {HexWord(h[1]) \o HexWord(h[2]) \o HexWord(h[3]) \o HexWord(h[4]) :
                    h \in {<<WAdd(MD5_Init[1], st[1]), WAdd(MD5_Init[2], st[2]),
                             WAdd(MD5_Init[3], st[3]), WAdd(MD5_Init[4], st[4])>> :
                        st \in {MD5_Rounds(MD5_Init, M) :
                            M \in {MD5_Words(MD5_Block(bytes))}}}} : TRUE

(***************************************************************************)
(* Inbound messages                                                        *)
(***************************************************************************)
\* number of distinct calendar days an origin timestamp ranges over
MaxDay == 2

\* user and chat ids: a channel id, zero and a user id
Ids == {-100123, 0, 42}

\* telegram.User objects of a forward origin
Users ==
    {[id |-> i, first_name |-> Some("Ana"), last_name |-> Some(""),
      username |-> Some("ana_tip")] : i \in Ids}
    \cup
    {[id |-> i, first_name |-> None, last_name |-> None, username |-> None] :
        i \in Ids}

\* telegram.Chat objects of a forward origin
Chats ==
    {[id |-> i, title |-> Some("Tips Canal"), username |-> None] : i \in Ids}

\* the legacy forward_from user and forward_from_chat chat
LegacyUsers ==
    {[id |-> 42, first_name |-> Some("Ana"), last_name |-> Some(""),
      username |-> Some("ana_tip")]}

LegacyChats == {[id |-> -5, title |-> Some("OldChannel"), username |-> None]}

\* free-text sender names, the empty one included: the legacy
\* forward_sender_name and the sender_user_name of a hidden-user origin
SenderNames == {"", "Juan Privado"}

OriginSenderNames == {"", "Juan Privado", "Ana"}

\* origin timestamps (aware, UTC) and the legacy forward_date (naive)
OriginDates ==
    {[year |-> 2024, month |-> 3, day |-> d, hour |-> 10, minute |-> 0,
      second |-> 0, tz |-> "+00:00"] : d \in 1..MaxDay}

ForwardDates ==
    {[year |-> 987, month |-> 12, day |-> 31, hour |-> 23, minute |-> 59,
      second |-> 59, tz |-> ""]}

Opt(S) == {None} \cup {Some(v) : v \in S}

\* MessageOrigin.type of the SDK's origin classes
OriginTypeOf(u, n, c) ==
    IF u # None THEN Some("user")
    ELSE IF n # None THEN Some("hidden_user")
    ELSE IF c # None THEN Some("chat")
    ELSE None

\* forward_origin objects; the three shapes may be carried together
Origins ==
    {[type |-> OriginTypeOf(u, n, c), sender_user |-> u, sender_user_name |-> n,
      chat |-> c, date |-> d] :
        u \in Opt(Users), n \in Opt(OriginSenderNames), c \in Opt(Chats),
        d \in Opt(OriginDates)}

\* message.from_user, the user who sent the message to the bot
FromUsers ==
    {[id |-> 7, first_name |-> Some("Luis"), last_name |-> None,
      username |-> Some("luis")]}

Messages ==
    [from_user : {Some(u) : u \in FromUsers},
     forward_from : Opt(LegacyUsers),
     forward_from_chat : Opt(LegacyChats),
     forward_sender_name : Opt(SenderNames),
     forward_date : Opt(ForwardDates),
     is_automatic_forward : Opt(BOOLEAN),
     forward_origin : Opt(Origins)]

Bots == {"hybrid", "main"}

(***************************************************************************)
(* Messages with sparse names: users with a first or a last name only,     *)
(* names padded with spaces, empty handles, chats without title            *)
(***************************************************************************)
\* first_name, last_name, username of the users
SparseNames ==
    {<<Some(" Ana"), Some("Lopez "), None>>,
     <<None, None, None>>,
     <<Some("Ana"), None, Some("ana_tip")>>,
     <<None, Some("Lopez "), Some("")>>}

EdgeUsers ==
    {[id |-> i, first_name |-> n[1], last_name |-> n[2], username |-> n[3]] :
        i \in {0, 42}, n \in SparseNames}

EdgeLegacyUsers ==
    {[id |-> 42, first_name |-> n[1], last_name |-> n[2], username |-> n[3]] :
        n \in SparseNames}

EdgeFromUsers ==
    {[id |-> 7, first_name |-> n[1], last_name |-> n[2], username |-> n[3]] :
        n \in {<<Some(" Ana"), Some("Lopez "), None>>, <<None, None, None>>}}

EdgeChats ==
    {[id |-> -100123, title |-> Some("Tips Canal"), username |-> None],
     [id |-> 0, title |-> Some("Tips Canal"), username |-> None],
     [id |-> -100123, title |-> None, username |-> Some("tips")],
     [id |-> -100123, title |-> Some(""), username |-> None],
     [id |-> -100123, title |-> None, username |-> None]}

EdgeLegacyChats ==
    {[id |-> -5, title |-> Some("OldChannel"), username |-> None],
     [id |-> -5, title |-> None, username |-> Some("old_ch")],
     [id |-> -5, title |-> Some(""), username |-> None],
     [id |-> -5, title |-> None, username |-> None]}

EdgeOriginDates ==
    {[year |-> 2024, month |-> 3, day |-> 1, hour |-> 10, minute |-> 0,
      second |-> 0, tz |-> "+00:00"]}

\* MessageOriginUser, MessageOriginHiddenUser, MessageOriginChat: one shape each
EdgeOrigins ==
    {[type |-> OriginTypeOf(Some(u), None, None), sender_user |-> Some(u),
      sender_user_name |-> None, chat |-> None, date |-> d] :
        u \in EdgeUsers, d \in Opt(EdgeOriginDates)}
    \cup
    {[type |-> OriginTypeOf(None, Some(n), None), sender_user |-> None,
      sender_user_name |-> Some(n), chat |-> None, date |-> d] :
        n \in SenderNames, d \in Opt(EdgeOriginDates)}
    \cup
    {[type |-> OriginTypeOf(None, None, Some(c)), sender_user |-> None,
      sender_user_name |-> None, chat |-> Some(c), date |-> d] :
        c \in EdgeChats, d \in Opt(EdgeOriginDates)}

EdgeMessages ==
    [from_user : Opt(EdgeFromUsers),
     forward_from : Opt(EdgeLegacyUsers),
     forward_from_chat : Opt(EdgeLegacyChats),
     forward_sender_name : Opt(SenderNames),
     forward_date : Opt(ForwardDates),
     is_automatic_forward : {None, Some(TRUE)},
     forward_origin : Opt(EdgeOrigins)]

(***************************************************************************)
(* _analyze_forward_origin                                                 *)
(***************************************************************************)
EmptyOriginInfo ==
    [origin_type |-> None, origin_sender_user_id |-> None,
     origin_sender_name |-> None, origin_sender_username |-> None,
     origin_chat_id |-> None, origin_chat_title |-> None,
     origin_chat_username |-> None, origin_date |-> None]

\* OriginIdentity with the chat tested before the hidden user name
OriginIdentity_chat_before_name(info, fo) ==
    IF ObjTruthy(fo.sender_user) THEN
        [info EXCEPT !.origin_sender_user_id = Some(fo.sender_user[1].id),
                     !.origin_sender_name = Some(full_name(fo.sender_user[1])),
                     !.origin_sender_username = fo.sender_user[1].username]
    ELSE IF ObjTruthy(fo.chat) THEN
        [info EXCEPT !.origin_chat_id = Some(fo.chat[1].id),
                     !.origin_chat_title = fo.chat[1].title,
                     !.origin_chat_username = fo.chat[1].username]
    ELSE IF StrTruthy(fo.sender_user_name) THEN
        [info EXCEPT !.origin_sender_name = fo.sender_user_name]
    ELSE info

\* OriginIdentity filling the chat fields whenever the origin carries a chat
OriginIdentity_chat_always(info, fo) ==
    LET sender_info ==
            IF ObjTruthy(fo.sender_user) THEN
                [info EXCEPT !.origin_sender_user_id = Some(fo.sender_user[1].id),
                             !.origin_sender_name = Some(full_name(fo.sender_user[1])),
                             !.origin_sender_username = fo.sender_user[1].username]
            ELSE IF StrTruthy(fo.sender_user_name) THEN
                [info EXCEPT !.origin_sender_name = fo.sender_user_name]
            ELSE info
    IN  IF ObjTruthy(fo.chat) THEN
            [sender_info EXCEPT !.origin_chat_id = Some(fo.chat[1].id),
                                !.origin_chat_title = fo.chat[1].title,
                                !.origin_chat_username = fo.chat[1].username]
        ELSE sender_info

\* the dispatch on the shape of forward_origin: user, hidden user name, chat
OriginIdentity(info, fo) ==
    IF ObjTruthy(fo.sender_user) THEN
        [info EXCEPT !.origin_sender_user_id = Some(fo.sender_user[1].id),
                     !.origin_sender_name = Some(full_name(fo.sender_user[1])),
                     !.origin_sender_username = fo.sender_user[1].username]
    ELSE IF StrTruthy(fo.sender_user_name) THEN
        [info EXCEPT !.origin_sender_name = fo.sender_user_name]
    ELSE IF ObjTruthy(fo.chat) THEN
        [info EXCEPT !.origin_chat_id = Some(fo.chat[1].id),
                     !.origin_chat_title = fo.chat[1].title,
                     !.origin_chat_username = fo.chat[1].username]
    ELSE info

\* OriginDate recording the date only next to an identity
OriginDate_only_with_identity(info, fo) ==
    IF /\ ObjTruthy(fo.date)
       /\ \/ info.origin_sender_user_id # None
          \/ info.origin_sender_name # None
          \/ info.origin_chat_id # None
    THEN [info EXCEPT !.origin_date = Some(isoformat(fo.date[1]))]
    ELSE info

\* origin_info["origin_date"] = origin_date.isoformat() when the origin has a date
OriginDate(info, fo) ==
    IF ObjTruthy(fo.date)
    THEN [info EXCEPT !.origin_date = Some(isoformat(fo.date[1]))]
    ELSE info

\* bot_hybrid: origin_info starts with every key None; origin_type is recorded
Hybrid_origin_info(m) ==
    IF ObjTruthy(m.forward_origin)
    THEN OriginDate(
            OriginIdentity(
                [EmptyOriginInfo EXCEPT !.origin_type = m.forward_origin[1].type],
                m.forward_origin[1]),
            m.forward_origin[1])
    ELSE EmptyOriginInfo

\* bot_main: origin_info starts as {} and is read with .get, so a missing key
\* reads as None; origin_type is never recorded
Main_origin_info(m) ==
    IF ObjTruthy(m.forward_origin)
    THEN OriginDate(OriginIdentity(EmptyOriginInfo, m.forward_origin[1]),
                    m.forward_origin[1])
    ELSE EmptyOriginInfo

\* is_forwarded_of without the forward_date signal
is_forwarded_of_without_date(m) ==
    \/ ObjTruthy(m.forward_from)
    \/ ObjTruthy(m.forward_from_chat)
    \/ StrTruthy(m.forward_sender_name)
    \/ ObjTruthy(m.forward_origin)
    \/ BoolTruthy(m.is_automatic_forward)

\* is_forwarded_of with forward_sender_name tested by  is not None
is_forwarded_of_name_not_none(m) ==
    \/ ObjTruthy(m.forward_from)
    \/ ObjTruthy(m.forward_from_chat)
    \/ m.forward_sender_name # None
    \/ ObjTruthy(m.forward_date)
    \/ ObjTruthy(m.forward_origin)
    \/ BoolTruthy(m.is_automatic_forward)

\* is_forwarded_of without the is_automatic_forward signal
is_forwarded_of_without_automatic(m) ==
    \/ ObjTruthy(m.forward_from)
    \/ ObjTruthy(m.forward_from_chat)
    \/ StrTruthy(m.forward_sender_name)
    \/ ObjTruthy(m.forward_date)
    \/ ObjTruthy(m.forward_origin)

\* bool(forward_from or forward_from_chat or forward_sender_name or
\*      forward_date or forward_origin or is_automatic_forward)
is_forwarded_of(m) ==
    \/ ObjTruthy(m.forward_from)
    \/ ObjTruthy(m.forward_from_chat)
    \/ StrTruthy(m.forward_sender_name)
    \/ ObjTruthy(m.forward_date)
    \/ ObjTruthy(m.forward_origin)
    \/ BoolTruthy(m.is_automatic_forward)

\* name_hash truncated to 6 characters
name_hash_six(name) == Prefix(md5_hexdigest(encode_utf8(name)), 6)

\* hashlib.md5(name.encode('utf-8')).hexdigest()[:8]
name_hash(name) == Prefix(md5_hexdigest(encode_utf8(name)), 8)

\* every value origin_sender_name can take, and its name_hash, computed once
HashedNames ==
    OriginSenderNames \cup {full_name(u) : u \in Users \cup EdgeUsers}

name_hash_table == [n \in HashedNames |-> name_hash(n)]

\* the identity segment: USER_ by sender id, PRIVATE_ by name hash, CHAT_ by
\* chat id, each tested for truthiness, first match only
identity_parts(info) ==
    IF IntTruthy(info.origin_sender_user_id)
    THEN <<"USER_" \o ToString(info.origin_sender_user_id[1])>>
    ELSE IF StrTruthy(info.origin_sender_name)
    THEN <<"PRIVATE_" \o name_hash_table[info.origin_sender_name[1]]>>
    ELSE IF IntTruthy(info.origin_chat_id)
    THEN <<"CHAT_" \o ToString(info.origin_chat_id[1])>>
    ELSE <<>>

\* date_str preferring the legacy forward_date to origin_date
date_str_legacy_first(info, m) ==
    StrOr(IF ObjTruthy(m.forward_date) THEN Some(isoformat(m.forward_date[1]))
          ELSE None,
          info.origin_date)

\* date_str = origin_date or (forward_date.isoformat() if forward_date else None)
date_str(info, m) ==
    StrOr(info.origin_date,
          IF ObjTruthy(m.forward_date) THEN Some(isoformat(m.forward_date[1]))
          ELSE None)

\* date_parts keeping the hour of the timestamp, date_str[:13]
date_parts_with_hour(info, m) ==
    IF StrTruthy(date_str(info, m))
    THEN <<"DATE_" \o Prefix(date_str(info, m)[1], 13)>>
    ELSE <<>>

\* if date_str: identifier_parts.append(f"DATE_{date_str[:10]}")
date_parts(info, m) ==
    IF StrTruthy(date_str(info, m))
    THEN <<"DATE_" \o Prefix(date_str(info, m)[1], 10)>>
    ELSE <<>>

identifier_parts(info, m) == identity_parts(info) \o date_parts(info, m)

\* unique_identifier_of joining the parts without testing that there are any
unique_identifier_of_unguarded(info, m) ==
    IF is_forwarded_of(m)
    THEN Some(join("_", identifier_parts(info, m)))
    ELSE None

\* if is_forwarded: ... if identifier_parts: unique_identifier = "_".join(..)
unique_identifier_of(info, m) ==
    IF is_forwarded_of(m) /\ identifier_parts(info, m) # <<>>
    THEN Some(join("_", identifier_parts(info, m)))
    ELSE None

\* legacy_sender_of filled only when there is no modern origin
legacy_sender_of_without_origin(m) ==
    IF ObjTruthy(m.forward_from) /\ ~ObjTruthy(m.forward_origin)
    THEN Some([user_id |-> m.forward_from[1].id,
               username |-> m.forward_from[1].username,
               full_name |-> full_name(m.forward_from[1])])
    ELSE None

\* forward_info["legacy_sender"], set if forward_from
legacy_sender_of(m) ==
    IF ObjTruthy(m.forward_from)
    THEN Some([user_id |-> m.forward_from[1].id,
               username |-> m.forward_from[1].username,
               full_name |-> full_name(m.forward_from[1])])
    ELSE None

\* legacy_chat_of that does not copy the title
legacy_chat_of_without_title(m) ==
    IF ObjTruthy(m.forward_from_chat)
    THEN Some([chat_id |-> m.forward_from_chat[1].id,
               title |-> None,
               username |-> m.forward_from_chat[1].username])
    ELSE None

\* forward_info["legacy_chat"], set if forward_from_chat
legacy_chat_of(m) ==
    IF ObjTruthy(m.forward_from_chat)
    THEN Some([chat_id |-> m.forward_from_chat[1].id,
               title |-> m.forward_from_chat[1].title,
               username |-> m.forward_from_chat[1].username])
    ELSE None

\* forward_info["legacy_sender_name"], set if forward_sender_name
legacy_sender_name_of(m) ==
    IF StrTruthy(m.forward_sender_name) THEN m.forward_sender_name ELSE None

\* the forward_info dict; an optional legacy_* key that is not set is None
forward_info_of(info, auto, m) ==
    [is_forwarded |-> is_forwarded_of(m),
     forward_date |-> IF ObjTruthy(m.forward_date)
                      THEN Some(isoformat(m.forward_date[1])) ELSE None,
     is_automatic_forward |-> auto,
     unique_identifier |-> unique_identifier_of(info, m),
     origin_info |-> info,
     legacy_sender |-> legacy_sender_of(m),
     legacy_chat |-> legacy_chat_of(m),
     legacy_sender_name |-> legacy_sender_name_of(m)]

\* TelegramBotHybrid._analyze_forward_origin
Hybrid_analyze_forward_origin(m) ==
    forward_info_of(Hybrid_origin_info(m), m.is_automatic_forward, m)

\* TelegramNotionBot._analyze_forward_origin (the attribute
\* is_automatic_forward exists on every Message, so the getattr default is
\* not taken and a None value is kept)
Main_analyze_forward_origin(m) ==
    forward_info_of(Main_origin_info(m), m.is_automatic_forward, m)

(***************************************************************************)
(* _get_tipster_name and _format_forward_response                          *)
(***************************************************************************)
\* _get_tipster_name testing the origin sender name before the username
Hybrid_get_tipster_name_name_before_username(fi) ==
    LET origin == fi.origin_info
        legacy_chat == fi.legacy_chat
        legacy_sender == fi.legacy_sender
        legacy_name == fi.legacy_sender_name
    IN  IF ~fi.is_forwarded THEN "Usuario directo"
        ELSE IF StrTruthy(origin.origin_chat_title) THEN origin.origin_chat_title[1]
        ELSE IF StrTruthy(origin.origin_sender_name) THEN origin.origin_sender_name[1]
        ELSE IF StrTruthy(origin.origin_sender_username)
        THEN "@" \o origin.origin_sender_username[1]
        ELSE IF legacy_chat # None /\ StrTruthy(legacy_chat[1].title)
        THEN legacy_chat[1].title[1]
        ELSE IF legacy_sender # None /\ StrTruthy(legacy_sender[1].username)
        THEN "@" \o legacy_sender[1].username[1]
        ELSE IF legacy_sender # None /\ legacy_sender[1].full_name # ""
        THEN legacy_sender[1].full_name
        ELSE IF StrTruthy(legacy_name) THEN legacy_name[1]
        ELSE "Tipster desconocido"

\* _get_tipster_name testing every value with  is not None
Hybrid_get_tipster_name_not_none(fi) ==
    LET origin == fi.origin_info
        legacy_chat == fi.legacy_chat
        legacy_sender == fi.legacy_sender
        legacy_name == fi.legacy_sender_name
    IN  IF ~fi.is_forwarded THEN "Usuario directo"
        ELSE IF origin.origin_chat_title # None THEN origin.origin_chat_title[1]
        ELSE IF origin.origin_sender_username # None
        THEN "@" \o origin.origin_sender_username[1]
        ELSE IF origin.origin_sender_name # None THEN origin.origin_sender_name[1]
        ELSE IF legacy_chat # None /\ legacy_chat[1].title # None
        THEN legacy_chat[1].title[1]
        ELSE IF legacy_sender # None /\ legacy_sender[1].username # None
        THEN "@" \o legacy_sender[1].username[1]
        ELSE IF legacy_sender # None THEN legacy_sender[1].full_name
        ELSE IF legacy_name # None THEN legacy_name[1]
        ELSE "Tipster desconocido"

\* TelegramBotHybrid._get_tipster_name
Hybrid_get_tipster_name(fi) ==
    LET origin == fi.origin_info
        legacy_chat == fi.legacy_chat
        legacy_sender == fi.legacy_sender
        legacy_name == fi.legacy_sender_name
    IN  IF ~fi.is_forwarded THEN "Usuario directo"
        ELSE IF StrTruthy(origin.origin_chat_title) THEN origin.origin_chat_title[1]
        ELSE IF StrTruthy(origin.origin_sender_username)
        THEN "@" \o origin.origin_sender_username[1]
        ELSE IF StrTruthy(origin.origin_sender_name) THEN origin.origin_sender_name[1]
        ELSE IF legacy_chat # None /\ StrTruthy(legacy_chat[1].title)
        THEN legacy_chat[1].title[1]
        ELSE IF legacy_sender # None /\ StrTruthy(legacy_sender[1].username)
        THEN "@" \o legacy_sender[1].username[1]
        ELSE IF legacy_sender # None /\ legacy_sender[1].full_name # ""
        THEN legacy_sender[1].full_name
        ELSE IF StrTruthy(legacy_name) THEN legacy_name[1]
        ELSE "Tipster desconocido"

\* the second line of the private-sender replies
Hybrid_id_line(unique_id) ==
    IF StrTruthy(unique_id) THEN "\n[id] ID: " \o unique_id[1] ELSE ""

\* a generic reply that says nothing
Hybrid_generic_response_empty == ""

\* the reply for a forward without any origin or legacy identity
Hybrid_generic_response == "\n[fwd] Mensaje reenviado"

\* TelegramBotHybrid._format_forward_response
Hybrid_format_forward_response(fi) ==
    LET origin == fi.origin_info
        unique_id == fi.unique_identifier
        legacy_sender == fi.legacy_sender
        legacy_chat == fi.legacy_chat
        legacy_name == fi.legacy_sender_name
    IN  IF ~fi.is_forwarded THEN ""
        ELSE IF IntTruthy(origin.origin_sender_user_id) THEN
            IF StrTruthy(origin.origin_sender_username)
            THEN "\n[fwd] Reenviado de: @" \o origin.origin_sender_username[1]
                 \o " (ID: " \o ToString(origin.origin_sender_user_id[1]) \o ")"
            ELSE "\n[fwd] Reenviado de: " \o PyStr(origin.origin_sender_name)
                 \o " (ID: " \o ToString(origin.origin_sender_user_id[1]) \o ")"
        ELSE IF StrTruthy(origin.origin_sender_name) THEN
            "\n[fwd] Reenviado de: " \o origin.origin_sender_name[1] \o " (privado)"
            \o Hybrid_id_line(unique_id)
        ELSE IF IntTruthy(origin.origin_chat_id) THEN
            IF StrTruthy(origin.origin_chat_username)
            THEN "\n[fwd] Reenviado del canal: @" \o origin.origin_chat_username[1]
                 \o " (ID: " \o ToString(origin.origin_chat_id[1]) \o ")"
            ELSE "\n[fwd] Reenviado de: "
                 \o (IF StrTruthy(origin.origin_chat_title)
                     THEN origin.origin_chat_title[1] ELSE "Canal")
                 \o " (ID: " \o ToString(origin.origin_chat_id[1]) \o ")"
        ELSE IF legacy_sender # None THEN
            IF StrTruthy(legacy_sender[1].username)
            THEN "\n[fwd] Reenviado de: @" \o legacy_sender[1].username[1]
                 \o " (ID: " \o ToString(legacy_sender[1].user_id) \o ")"
            ELSE "\n[fwd] Reenviado de: " \o legacy_sender[1].full_name
                 \o " (ID: " \o ToString(legacy_sender[1].user_id) \o ")"
        ELSE IF legacy_chat # None THEN
            IF StrTruthy(legacy_chat[1].username)
            THEN "\n[fwd] Reenviado del canal: @" \o legacy_chat[1].username[1]
                 \o " (ID: " \o ToString(legacy_chat[1].chat_id) \o ")"
            ELSE "\n[fwd] Reenviado de: " \o PyStr(legacy_chat[1].title)
                 \o " (ID: " \o ToString(legacy_chat[1].chat_id) \o ")"
        ELSE IF StrTruthy(legacy_name) THEN
            "\n[fwd] Reenviado de: " \o legacy_name[1] \o " (privado)"
            \o Hybrid_id_line(unique_id)
        ELSE Hybrid_generic_response

\* TelegramNotionBot._format_forward_response
Main_format_forward_response(fi) ==
    LET origin == fi.origin_info
        unique_id == fi.unique_identifier
        legacy == fi.legacy_sender
    IN  IF ~fi.is_forwarded THEN ""
        ELSE IF IntTruthy(origin.origin_sender_user_id) THEN
            "\n\n[fwd] **Mensaje reenviado de usuario**\n[user] ID: "
            \o ToString(origin.origin_sender_user_id[1])
            \o (IF StrTruthy(origin.origin_sender_username)
                THEN " (@" \o origin.origin_sender_username[1] \o ")"
                ELSE IF StrTruthy(origin.origin_sender_name)
                THEN " (" \o origin.origin_sender_name[1] \o ")"
                ELSE "")
        ELSE IF StrTruthy(origin.origin_sender_name) THEN
            "\n\n[fwd] **Mensaje reenviado**\n[user] Usuario: "
            \o origin.origin_sender_name[1] \o " (perfil privado)"
        ELSE IF IntTruthy(origin.origin_chat_id) THEN
            "\n\n[fwd] **Mensaje reenviado de canal/grupo**\n[chat] ID: "
            \o ToString(origin.origin_chat_id[1])
            \o (IF StrTruthy(origin.origin_chat_username)
                THEN " (@" \o origin.origin_chat_username[1] \o ")"
                ELSE IF StrTruthy(origin.origin_chat_title)
                THEN " (" \o origin.origin_chat_title[1] \o ")"
                ELSE "")
        ELSE IF legacy # None THEN
            "\n\n[fwd] **Mensaje reenviado**\n[user] " \o legacy[1].full_name
            \o " (ID: " \o ToString(legacy[1].user_id) \o ")"
        ELSE "\n\n[fwd] **Mensaje reenviado**\n[note] ID unico: "
             \o (IF StrTruthy(unique_id) THEN unique_id[1] ELSE "N/A")

(***************************************************************************)
(* The handler: a message arrives, is analysed, named and formatted        *)
(***************************************************************************)
\* the object has the attribute id
HasId(o) == "id" \in DOMAIN o

\* message_data["sender"], set if message.from_user
sender_of(m) ==
    IF ObjTruthy(m.from_user)
    THEN Some([user_id |-> m.from_user[1].id,
               username |-> m.from_user[1].username,
               first_name |-> m.from_user[1].first_name,
               last_name |-> m.from_user[1].last_name,
               full_name |-> full_name(m.from_user[1])])
    ELSE None

\* the reads of .id that _analyze_forward_origin makes without getattr:
\* sender_user.id and chat.id in the branch taken for the origin,
\* forward_from.id and forward_from_chat.id for the legacy mirrors
ReadsMissingId(m) ==
    \/ /\ ObjTruthy(m.forward_origin)
       /\ ObjTruthy(m.forward_origin[1].sender_user)
       /\ ~HasId(m.forward_origin[1].sender_user[1])
    \/ /\ ObjTruthy(m.forward_origin)
       /\ ~ObjTruthy(m.forward_origin[1].sender_user)
       /\ ~StrTruthy(m.forward_origin[1].sender_user_name)
       /\ ObjTruthy(m.forward_origin[1].chat)
       /\ ~HasId(m.forward_origin[1].chat[1])
    \/ ObjTruthy(m.forward_from) /\ ~HasId(m.forward_from[1])
    \/ ObjTruthy(m.forward_from_chat) /\ ~HasId(m.forward_from_chat[1])

\* no reply sent, Notion not configured, no step run
NoNotion == [service |-> None, enabled |-> FALSE, constructions |-> 0]

InitService ==
    /\ replies = <<>>
    /\ notion = NoNotion
    /\ notion_result = None
    /\ calls = 0
    /\ steps = <<>>
    /\ page = None

Init ==
    /\ bot \in Bots
    /\ message = None
    /\ pc = "idle"
    /\ sender = None
    /\ forwarding = None
    /\ tipster_name = None
    /\ forward_response = None
    /\ previous = None
    /\ InitService

\* an update carrying a message of the set S is delivered to the handler
ReceiveFrom(S) ==
    /\ pc = "idle"
    /\ \E m \in S : message' = Some(m)
    /\ pc' = "received"
    /\ sender' = None
    /\ forwarding' = None
    /\ tipster_name' = None
    /\ forward_response' = None
    /\ UNCHANGED <<bot, previous>>
    /\ UNCHANGED serviceVars

Receive == ReceiveFrom(Messages)

\* message_data["sender"] = {...}
\* message_data["forwarding"] = self._analyze_forward_origin(message)
AnalyzeForwardOrigin ==
    /\ pc = "received"
    /\ ~ReadsMissingId(message[1])
    /\ sender' = sender_of(message[1])
    /\ forwarding' = Some(IF bot = "hybrid"
                          THEN Hybrid_analyze_forward_origin(message[1])
                          ELSE Main_analyze_forward_origin(message[1]))
    /\ pc' = "analyzed"
    /\ UNCHANGED <<bot, message, tipster_name, forward_response, previous>>
    /\ UNCHANGED serviceVars

\* tipster_name = self._get_tipster_name(forward_info)  (hybrid bot only)
GetTipsterName ==
    /\ pc = "analyzed"
    /\ bot = "hybrid"
    /\ tipster_name' = Some(Hybrid_get_tipster_name(forwarding[1]))
    /\ pc' = "named"
    /\ UNCHANGED <<bot, message, sender, forwarding, forward_response, previous>>
    /\ UNCHANGED serviceVars

\* forward_response = self._format_forward_response(forwarding)
FormatForwardResponse ==
    /\ \/ pc = "named" /\ bot = "hybrid"
       \/ pc = "analyzed" /\ bot = "main"
    /\ forward_response' = Some(IF bot = "hybrid"
                                THEN Hybrid_format_forward_response(forwarding[1])
                                ELSE Main_format_forward_response(forwarding[1]))
    /\ pc' = "formatted"
    /\ UNCHANGED <<bot, message, sender, forwarding, tipster_name, previous>>
    /\ UNCHANGED serviceVars

\* the handler returns; nothing of the message is kept
Return ==
    /\ pc = "formatted"
    /\ pc' = "idle"
    /\ message' = None
    /\ sender' = None
    /\ forwarding' = None
    /\ tipster_name' = None
    /\ forward_response' = None
    /\ UNCHANGED <<bot, previous>>
    /\ UNCHANGED serviceVars

Next ==
    \/ Receive
    \/ AnalyzeForwardOrigin
    \/ GetTipsterName
    \/ FormatForwardResponse
    \/ Return

Spec == Init /\ [][Next]_vars

(***************************************************************************)
(* The same handler fed with the messages with sparse names                *)
(***************************************************************************)
ReceiveEdge == ReceiveFrom(EdgeMessages)

NextEdge ==
    \/ ReceiveEdge
    \/ AnalyzeForwardOrigin
    \/ GetTipsterName
    \/ FormatForwardResponse
    \/ Return

SpecEdge == Init /\ [][NextEdge]_vars

(***************************************************************************)
(* The same handler fed with objects that lack the attribute id            *)
(***************************************************************************)
NoIdUser == [first_name |-> Some("Ana"), last_name |-> None, username |-> None]

NoIdChat == [title |-> Some("Tips Canal"), username |-> None]

TotalUsers == LegacyUsers \cup {NoIdUser}

TotalChats == LegacyChats \cup {NoIdChat}

\* origins of one shape, and a hidden-user origin that also carries a chat
TotalOrigins ==
    {[type |-> OriginTypeOf(Some(u), None, None), sender_user |-> Some(u),
      sender_user_name |-> None, chat |-> None, date |-> None] :
        u \in TotalUsers}
    \cup
    {[type |-> OriginTypeOf(None, n, c), sender_user |-> None,
      sender_user_name |-> n, chat |-> c, date |-> None] :
        n \in {None, Some("Juan Privado")}, c \in Opt(TotalChats)}

TotalMessages ==
    [from_user : {Some(u) : u \in FromUsers},
     forward_from : Opt(TotalUsers),
     forward_from_chat : Opt(TotalChats),
     forward_sender_name : {None},
     forward_date : Opt(ForwardDates),
     is_automatic_forward : {None},
     forward_origin : Opt(TotalOrigins)]

ReceiveTotal == ReceiveFrom(TotalMessages)

\* _analyze_forward_origin reads .id from an object without it: AttributeError
\* leaves the function, and _extract_forward_info with it
AnalyzeRaises ==
    /\ pc = "received"
    /\ ReadsMissingId(message[1])
    /\ pc' = "raised"
    /\ UNCHANGED <<bot, message, sender, forwarding, tipster_name,
                   forward_response, previous>>
    /\ UNCHANGED serviceVars

\* the reply a message without image and without forwarding metadata gets:
\* "Mensaje procesado" in bot_hybrid, the help text in bot_main
DirectReply ==
    IF bot = "hybrid" THEN "[ok] Mensaje procesado"
    ELSE "[img] **Solo proceso imagenes por ahora**\n\n"
         \o "Para usar el bot:\n"
         \o "1 Envia una imagen (JPG, PNG, etc.)\n"
         \o "2 El bot la procesara automaticamente\n\n"
         \o "[tip] Usa /help para mas informacion"

\* the reply of the except branch: "Error al procesar el mensaje" in
\* bot_hybrid, the short help text in bot_main's handle_other_messages (the
\* backquotes around /help are left out)
ErrorReply ==
    IF bot = "hybrid" THEN "[x] Error al procesar el mensaje"
    ELSE "[img] **Solo proceso imagenes por ahora**\n\n[tip] Usa /help para mas informacion"

\* except Exception: the handler logs the error and replies with the error text
ReplyError ==
    /\ pc = "raised"
    /\ replies' = Append(replies, ErrorReply)
    /\ pc' = "failed"
    /\ UNCHANGED <<bot, message, sender, forwarding, tipster_name,
                   forward_response, previous, notion, notion_result, calls,
                   steps, page>>

\* the handler returns after the except branch
ReturnFailed ==
    /\ pc = "failed"
    /\ pc' = "idle"
    /\ message' = None
    /\ replies' = <<>>
    /\ UNCHANGED <<bot, sender, forwarding, tipster_name, forward_response,
                   previous, notion, notion_result, calls, steps, page>>

NextTotal ==
    \/ ReceiveTotal
    \/ AnalyzeForwardOrigin
    \/ AnalyzeRaises
    \/ GetTipsterName
    \/ FormatForwardResponse
    \/ Return
    \/ ReplyError
    \/ ReturnFailed

SpecTotal == Init /\ [][NextTotal]_vars

(***************************************************************************)
(* Two messages in a row: the first one and its identifier are remembered  *)
(***************************************************************************)
\* origin timestamps of the morning and of the last second of each day
PairDates ==
    {[year |-> 2024, month |-> 3, day |-> d, hour |-> t[1], minute |-> t[2],
      second |-> t[2], tz |-> "+00:00"] :
        d \in 1..MaxDay, t \in {<<10, 0>>, <<23, 59>>}}

\* hidden-user origins, and one chat origin
PairOrigins ==
    {[type |-> OriginTypeOf(None, Some(n), None), sender_user |-> None,
      sender_user_name |-> Some(n), chat |-> None, date |-> d] :
        n \in OriginSenderNames, d \in Opt(PairDates)}
    \cup
    {[type |-> OriginTypeOf(None, None, Some(c)), sender_user |-> None,
      sender_user_name |-> None, chat |-> Some(c), date |-> None] :
        c \in LegacyChats}

PairMessages ==
    [from_user : {Some(u) : u \in FromUsers},
     forward_from : Opt(LegacyUsers),
     forward_from_chat : {None},
     forward_sender_name : {None, Some("Juan Privado")},
     forward_date : Opt(ForwardDates),
     is_automatic_forward : {None},
     forward_origin : {Some(o) : o \in PairOrigins}]

ReceivePair == ReceiveFrom(PairMessages)

\* the handler returns; the message and its identifier are remembered
ReturnRecorded ==
    /\ pc = "formatted"
    /\ pc' = "idle"
    /\ previous' = Some([message |-> message[1],
                         unique_identifier |-> forwarding[1].unique_identifier])
    /\ message' = None
    /\ sender' = None
    /\ forwarding' = None
    /\ tipster_name' = None
    /\ forward_response' = None
    /\ UNCHANGED bot
    /\ UNCHANGED serviceVars

NextPair ==
    \/ ReceivePair
    \/ AnalyzeForwardOrigin
    \/ GetTipsterName
    \/ FormatForwardResponse
    \/ ReturnRecorded

SpecPair == Init /\ [][NextPair]_vars

(***************************************************************************)
(* bot.py: the Notion page fields derived from a message                   *)
(***************************************************************************)
\* the length at which _get_title cuts a text
TitleLength == 50

\* texts of 50 and 51 characters
Text50 == "01234567890123456789012345678901234567890123456789"

Text51 == Text50 \o "x"

\* messages with texts of 0, 13, 50, 51 and 104 characters, captions of 0,
\* 21 and 51; message.photo is a tuple of PhotoSize, empty without a photo;
\* message.document carries file_name and file_size
PageMessages ==
    [text : Opt({"", "Mensaje corto", Text50, Text51,
                 Text50 \o " y " \o Text51}),
     caption : Opt({"", "Caption del documento", Text51}),
     photo : Opt({<<>>, <<"small", "large">>}),
     document : Opt({[file_name |-> Some("documento.pdf"),
                      file_size |-> Some(1024)],
                     [file_name |-> None, file_size |-> None],
                     [file_name |-> Some(""), file_size |-> Some(0)]})]

\* datetime.now().strftime("%Y-%m-%d %H:%M")
Timestamps == {"2024-03-01 10:00", "2024-03-01 10:01"}

\* truthiness of an optional tuple: None and () are falsy
SeqTruthy(o) == o # None /\ Len(o[1]) > 0

\* _get_message_type testing the document before the photo
get_message_type_document_first(m) ==
    IF ObjTruthy(m.document) THEN "Archivo"
    ELSE IF SeqTruthy(m.photo) THEN "Foto"
    ELSE IF StrTruthy(m.text) THEN "Texto"
    ELSE "Otro"

\* NotionTelegramBot._get_message_type
get_message_type(m) ==
    IF SeqTruthy(m.photo) THEN "Foto"
    ELSE IF ObjTruthy(m.document) THEN "Archivo"
    ELSE IF StrTruthy(m.text) THEN "Texto"
    ELSE "Otro"

\* truncate cutting without the "..." mark
truncate_without_mark(t) == Prefix(t, TitleLength)

\* title = t[:50]; if len(t) > 50: title += "..."
truncate(t) ==
    IF Len(t) > TitleLength THEN Prefix(t, TitleLength) \o "..."
    ELSE Prefix(t, TitleLength)

\* NotionTelegramBot._get_title, timestamp being the formatted clock reading
get_title(m, timestamp) ==
    IF StrTruthy(m.text) /\ Len(m.text[1]) > 0 THEN truncate(m.text[1])
    ELSE IF StrTruthy(m.caption) THEN truncate(m.caption[1])
    ELSE get_message_type(m) \o " - " \o timestamp

\* the file lines appended for a document:
\* f"\nArchivo: {file_name or 'Sin nombre'}", f"\nTamano: {file_size or 'Desconocido'} bytes"
file_info(d) ==
    "\nArchivo: " \o (IF StrTruthy(d.file_name) THEN d.file_name[1] ELSE "Sin nombre")
    \o "\nTamano: "
    \o (IF IntTruthy(d.file_size) THEN ToString(d.file_size[1]) ELSE "Desconocido")
    \o " bytes"

\* get_additional_text appending the image line to a document too
get_additional_text_photo_first(m) ==
    (IF StrTruthy(m.text) THEN m.text[1]
     ELSE IF StrTruthy(m.caption) THEN m.caption[1]
     ELSE "")
    \o (IF SeqTruthy(m.photo) THEN "\nTipo: Imagen"
        ELSE IF ObjTruthy(m.document) THEN file_info(m.document[1])
        ELSE "")

\* NotionTelegramBot._get_additional_text
get_additional_text(m) ==
    (IF StrTruthy(m.text) THEN m.text[1]
     ELSE IF StrTruthy(m.caption) THEN m.caption[1]
     ELSE "")
    \o (IF ObjTruthy(m.document) THEN file_info(m.document[1])
        ELSE IF SeqTruthy(m.photo) THEN "\nTipo: Imagen"
        ELSE "")

\* a message has arrived at bot.py and no page field is computed yet
InitPage ==
    /\ bot = "bot"
    /\ message \in {Some(m) : m \in PageMessages}
    /\ pc = "page"
    /\ sender = None
    /\ forwarding = None
    /\ tipster_name = None
    /\ forward_response = None
    /\ previous = None
    /\ replies = <<>>
    /\ notion = NoNotion
    /\ notion_result = None
    /\ calls = 0
    /\ steps = <<>>
    /\ page = Some([message_type |-> None, title |-> None,
                     additional_text |-> None])

GetMessageType ==
    /\ pc = "page"
    /\ page[1].message_type = None
    /\ page' = Some([page[1] EXCEPT !.message_type = Some(get_message_type(message[1]))])
    /\ UNCHANGED <<bot, message, pc, sender, forwarding, tipster_name,
                   forward_response, previous, replies, notion, notion_result,
                   calls, steps>>

GetTitle ==
    /\ pc = "page"
    /\ page[1].title = None
    /\ \E timestamp \in Timestamps :
        page' = Some([page[1] EXCEPT !.title = Some(get_title(message[1], timestamp))])
    /\ UNCHANGED <<bot, message, pc, sender, forwarding, tipster_name,
                   forward_response, previous, replies, notion, notion_result,
                   calls, steps>>

GetAdditionalText ==
    /\ pc = "page"
    /\ page[1].additional_text = None
    /\ page' = Some([page[1] EXCEPT
                        !.additional_text = Some(get_additional_text(message[1]))])
    /\ UNCHANGED <<bot, message, pc, sender, forwarding, tipster_name,
                   forward_response, previous, replies, notion, notion_result,
                   calls, steps>>

NextPage ==
    \/ GetMessageType
    \/ GetTitle
    \/ GetAdditionalText

SpecPage == InitPage /\ [][NextPage]_vars

(***************************************************************************)
(* bot_main.py: handle_image, the download, upload and record steps.       *)
(* steps is the log of the steps the handler has run for the current       *)
(* update, with what each was given and what it returned; replies is the   *)
(* sequence of texts the status message has shown.  The outcome of a step  *)
(* that talks to Telegram or Notion is chosen by the environment; the      *)
(* edits of the status message are taken to succeed.                       *)
(***************************************************************************)
\* image messages: no legacy sender, any origin, some with an id-less object
ImageMessages ==
    {m \in TotalMessages :
        /\ m.forward_from = None
        /\ m.forward_from_chat = None}

\* f"photo_{timestamp}.{extension}"
Filenames == {"photo_20240301_100000_000.jpg"}

\* upload_data.get("id"), truthy when _upload_file_to_notion returns it
FileUploadIds == {"upload-1"}

\* response["id"] of pages.create; an empty id is possible and falsy
PageIds == {"", "0123456789abcdefghij-page"}

\* the texts of the status message; exception is f"Error: {str(e)[:100]}..."
\* for the AttributeError of a missing id
Status ==
    [processing |-> "[..] Procesando imagen...",
     downloading |-> "[down] Descargando imagen...",
     download_error |-> "[x] Error descargando imagen",
     uploading |-> "[..] Subiendo archivo a Notion...",
     upload_error |-> "[x] Error subiendo archivo",
     creating |-> "[note] Creando registro en Notion...",
     create_error |-> "[x] Error creando registro",
     exception |-> "[x] Error: object has no attribute 'id'..."]

\* _get_user_name
get_user_name(m) ==
    IF ~ObjTruthy(m.from_user) THEN "Usuario desconocido"
    ELSE LET user == m.from_user[1]
             parts == (IF StrTruthy(user.first_name)
                       THEN <<user.first_name[1]>> ELSE <<>>)
                      \o (IF StrTruthy(user.last_name)
                          THEN <<user.last_name[1]>> ELSE <<>>)
         IN  IF Len(parts) > 0 THEN join(" ", parts)
             ELSE IF StrTruthy(user.username) THEN "@" \o user.username[1]
             ELSE "Usuario " \o ToString(user.id)

\* one entry of the log of steps
StepEntry(step, filename, file_upload_id, result, raised) ==
    [step |-> step, filename |-> filename, file_upload_id |-> file_upload_id,
     result |-> result, raised |-> raised]

\* `if not filename`, `if not file_upload_id`, `if not page_id` without the
\* test: the handler goes on whatever the step returned
returned_nothing_ignored(r) == FALSE

\* `if not filename`, `if not file_upload_id`, `if not page_id`
returned_nothing(r) == ~StrTruthy(r)

InitImage ==
    /\ bot = "main"
    /\ message = None
    /\ pc = "idle"
    /\ sender = None
    /\ forwarding = None
    /\ tipster_name = None
    /\ forward_response = None
    /\ previous = None
    /\ InitService

\* an update with an image reaches handle_image:
\* status = await message.reply_text("Procesando imagen...")
ReceiveImage ==
    /\ pc = "idle"
    /\ \E m \in ImageMessages : message' = Some(m)
    /\ pc' = "image"
    /\ replies' = <<Status.processing>>
    /\ steps' = <<>>
    /\ sender' = None
    /\ forwarding' = None
    /\ forward_response' = None
    /\ UNCHANGED <<bot, tipster_name, previous, notion, notion_result, calls,
                   page>>

\* 0. message_data = self._extract_forward_info(message)
ExtractForwardInfo ==
    /\ pc = "image"
    /\ ~ReadsMissingId(message[1])
    /\ sender' = sender_of(message[1])
    /\ forwarding' = Some(Main_analyze_forward_origin(message[1]))
    /\ steps' = Append(steps, StepEntry("extract", None, None,
                                        Some("message_data"), FALSE))
    /\ pc' = "extracted"
    /\ UNCHANGED <<bot, message, tipster_name, forward_response, previous,
                   replies, notion, notion_result, calls, page>>

\* 0. _extract_forward_info raises on the read of a missing id; the except
\* branch of handle_image shows the error and the handler ends
ExtractRaises ==
    /\ pc = "image"
    /\ ReadsMissingId(message[1])
    /\ steps' = Append(steps, StepEntry("extract", None, None, None, TRUE))
    /\ replies' = Append(replies, Status.exception)
    /\ pc' = "image_done"
    /\ UNCHANGED <<bot, message, sender, forwarding, tipster_name,
                   forward_response, previous, notion, notion_result, calls,
                   page>>

\* 1. filename = await self._download_image(message), None on any failure
DownloadImage ==
    /\ pc = "extracted"
    /\ \E filename \in Opt(Filenames) :
        /\ steps' = Append(steps, StepEntry("download", None, None, filename,
                                            FALSE))
        /\ IF returned_nothing(filename)
           THEN /\ replies' = replies \o <<Status.downloading, Status.download_error>>
                /\ pc' = "image_done"
           ELSE /\ replies' = Append(replies, Status.downloading)
                /\ pc' = "downloaded"
    /\ UNCHANGED <<bot, message, sender, forwarding, tipster_name,
                   forward_response, previous, notion, notion_result, calls,
                   page>>

\* 2. file_upload_id = await self._upload_file_to_notion(filename)
UploadFileToNotion ==
    /\ pc = "downloaded"
    /\ \E file_upload_id \in Opt(FileUploadIds) :
        /\ steps' = Append(steps, StepEntry("upload", steps[Len(steps)].result, None,
                                            file_upload_id, FALSE))
        /\ IF returned_nothing(file_upload_id)
           THEN /\ replies' = replies \o <<Status.uploading, Status.upload_error>>
                /\ pc' = "image_done"
           ELSE /\ replies' = Append(replies, Status.uploading)
                /\ pc' = "uploaded"
    /\ UNCHANGED <<bot, message, sender, forwarding, tipster_name,
                   forward_response, previous, notion, notion_result, calls,
                   page>>

\* 3. page_id = await self._create_notion_record(message, filename,
\*                                               file_upload_id, message_data)
CreateNotionRecord ==
    /\ pc = "uploaded"
    /\ \E page_id \in Opt(PageIds) :
        /\ steps' = Append(steps, StepEntry("create", steps[Len(steps)].filename,
                                            steps[Len(steps)].result, page_id, FALSE))
        /\ IF returned_nothing(page_id)
           THEN /\ replies' = replies \o <<Status.creating, Status.create_error>>
                /\ pc' = "image_done"
           ELSE /\ replies' = Append(replies, Status.creating)
                /\ pc' = "created"
    /\ UNCHANGED <<bot, message, sender, forwarding, tipster_name,
                   forward_response, previous, notion, notion_result, calls,
                   page>>

\* 4. the confirmation with the forwarding lines, then the log (the
\* backquotes around the file name and the page id are left out)
ShowSuccess ==
    /\ pc = "created"
    /\ forward_response' = Some(Main_format_forward_response(forwarding[1]))
    /\ replies' = Append(replies,
           "[ok] **Imagen procesada exitosamente!**\n\n"
           \o "[doc] **Registro creado en Notion**\n"
           \o "[user] **Usuario**: " \o get_user_name(message[1]) \o "\n"
           \o "[file] **Archivo**: " \o steps[Len(steps)].filename[1] \o "\n"
           \o "[id] **Page ID**: " \o Prefix(steps[Len(steps)].result[1], 20)
           \o "..."
           \o forward_response'[1]
           \o "\n\n[link] Revisa tu base de datos de Notion para ver el registro completo.")
    /\ pc' = "image_done"
    /\ UNCHANGED <<bot, message, sender, forwarding, tipster_name, previous,
                   notion, notion_result, calls, steps, page>>

\* handle_image returns
ReturnImage ==
    /\ pc = "image_done"
    /\ pc' = "idle"
    /\ message' = None
    /\ sender' = None
    /\ forwarding' = None
    /\ forward_response' = None
    /\ replies' = <<>>
    /\ steps' = <<>>
    /\ UNCHANGED <<bot, tipster_name, previous, notion, notion_result, calls,
                   page>>

NextImage ==
    \/ ReceiveImage
    \/ ExtractForwardInfo
    \/ ExtractRaises
    \/ DownloadImage
    \/ UploadFileToNotion
    \/ CreateNotionRecord
    \/ ShowSuccess
    \/ ReturnImage

SpecImage == InitImage /\ [][NextImage]_vars

(***************************************************************************)
(* services/notion_service.py: the NotionService singleton.  notion holds  *)
(* the environment read by the constructor (token, database_id), the       *)
(* module global _notion_service (service), how often NotionService() was  *)
(* entered (attempts) and how often it returned (constructions), whether   *)
(* the last get_notion_service() raised, and the hybrid bot's view of it   *)
(* (available = NOTION_AVAILABLE, connection = what test_connection()      *)
(* returned, enabled = notion_enabled).                                    *)
(***************************************************************************)
MaxCalls == 4

\* values of NOTION_TOKEN, the placeholder of the sample .env among them
Tokens == {"", "tu_token_de_notion_aqui", "secret_token"}

\* values of NOTION_DATABASE_ID
DatabaseIds == {"", "db-1"}

\* the process before anything of Notion was touched
NotionEnv(available, token, database_id) ==
    [available |-> available, token |-> token, database_id |-> database_id,
     service |-> None, attempts |-> 0, constructions |-> 0, raised |-> FALSE,
     connection |-> None, enabled |-> FALSE]

\* get_notion_service without `if _notion_service is None`
get_notion_service_uncached(n) ==
    IF ~StrTruthy(n.token) \/ ~StrTruthy(n.database_id)
    THEN [n EXCEPT !.attempts = @ + 1, !.raised = TRUE]
    ELSE [n EXCEPT !.service = Some([instance |-> n.constructions + 1,
                                     token |-> n.token[1],
                                     database_id |-> n.database_id[1]]),
                   !.attempts = @ + 1, !.constructions = @ + 1,
                   !.raised = FALSE]

\* get_notion_service: the process after the call; the call returned
\* .service[1] unless .raised.  NotionService.__init__ raises ValueError
\* without token or database id, and else returns a new instance holding both
get_notion_service(n) ==
    IF n.service # None THEN [n EXCEPT !.raised = FALSE]
    ELSE IF ~StrTruthy(n.token) \/ ~StrTruthy(n.database_id)
    THEN [n EXCEPT !.attempts = @ + 1, !.raised = TRUE]
    ELSE [n EXCEPT !.service = Some([instance |-> n.constructions + 1,
                                     token |-> n.token[1],
                                     database_id |-> n.database_id[1]]),
                   !.attempts = @ + 1, !.constructions = @ + 1,
                   !.raised = FALSE]

InitNotionService ==
    /\ bot = "hybrid"
    /\ message = None
    /\ pc = "service"
    /\ sender = None
    /\ forwarding = None
    /\ tipster_name = None
    /\ forward_response = None
    /\ previous = None
    /\ replies = <<>>
    /\ notion \in {NotionEnv(TRUE, t, d) : t \in Opt(Tokens), d \in Opt(DatabaseIds)}
    /\ notion_result = None
    /\ calls = 0
    /\ steps = <<>>
    /\ page = None

\* one call of get_notion_service(); steps logs what each call returned
GetNotionService ==
    /\ pc = "service"
    /\ Len(steps) < MaxCalls
    /\ notion' = get_notion_service(notion)
    /\ steps' = Append(steps,
                       StepEntry("get_notion_service", None, None,
                                 IF notion'.raised THEN None ELSE notion'.service,
                                 notion'.raised))
    /\ UNCHANGED <<bot, message, pc, sender, forwarding, tipster_name,
                   forward_response, previous, replies, notion_result, calls,
                   page>>

\* the environment changes between two calls (os.getenv is read at each
\* construction, not once)
SetEnv ==
    /\ pc = "service"
    /\ \E t \in Opt(Tokens), d \in Opt(DatabaseIds) :
        /\ <<t, d>> # <<notion.token, notion.database_id>>
        /\ notion' = [notion EXCEPT !.token = t, !.database_id = d]
    /\ UNCHANGED <<bot, message, pc, sender, forwarding, tipster_name,
                   forward_response, previous, replies, notion_result, calls,
                   steps, page>>

NextNotionService ==
    \/ GetNotionService
    \/ SetEnv

SpecNotionService == InitNotionService /\ [][NextNotionService]_vars

(***************************************************************************)
(* bot_hybrid.py: the constructor and process_message with its download,   *)
(* Notion, reply and log steps.  replies holds the replies delivered to    *)
(* the user for the current update, calls the number of create_bet_entry   *)
(* calls made for it.  Whether a download, a Notion request, a reply or    *)
(* the console log succeeds is chosen by the environment.                  *)
(***************************************************************************)
\* str.lower() on ASCII text
RECURSIVE lower(_)
lower(s) ==
    IF Len(s) = 0 THEN ""
    ELSE LET upper == "ABCDEFGHIJKLMNOPQRSTUVWXYZ"
             lowered == "abcdefghijklmnopqrstuvwxyz"
             c == SubSeq(s, 1, 1)
             at == {i \in 1..Len(upper) : SubSeq(upper, i, i) = c}
         IN  (IF at = {} THEN c
              ELSE LET i == CHOOSE i \in at : TRUE IN SubSeq(lowered, i, i))
             \o lower(Tail(s))

\* _is_image_file
is_image_file(m) ==
    IF SeqTruthy(m.photo) THEN TRUE
    ELSE IF ObjTruthy(m.document) THEN
        LET file_name == StrOr(m.document[1].file_name, Some(""))[1]
            mime_type == StrOr(m.document[1].mime_type, Some(""))[1]
            image_extensions ==
                {".jpg", ".jpeg", ".png", ".gif", ".bmp", ".webp", ".tiff"}
        IN  \/ \E ext \in image_extensions : EndsWith(lower(file_name), ext)
            \/ StartsWith(mime_type, "image/")
    ELSE FALSE

\* _generate_filename; timestamp is
\* datetime.now().strftime("%Y%m%d_%H%M%S_%f")[:-3], and os.path.splitext
\* splits a plain file name before its last dot, a dot in first position not
\* counting
generate_filename(m) ==
    LET timestamp == "20240301_100000_000"
    IN  IF SeqTruthy(m.photo) THEN "photo_" \o timestamp \o ".jpg"
        ELSE IF ObjTruthy(m.document) /\ StrTruthy(m.document[1].file_name)
        THEN LET name == m.document[1].file_name[1]
                 dots == {i \in 2..Len(name) : SubSeq(name, i, i) = "."}
                 cut == IF dots = {} THEN Len(name) + 1
                        ELSE CHOOSE i \in dots : \A j \in dots : j <= i
             IN  SubSeq(name, 1, cut - 1) \o "_" \o timestamp
                 \o SubSeq(name, cut, Len(name))
        ELSE "image_" \o timestamp \o ".bin"

\* the image messages with and without photo and document
HybridMessages ==
    {[from_user |-> m.from_user, forward_from |-> m.forward_from,
      forward_from_chat |-> m.forward_from_chat,
      forward_sender_name |-> m.forward_sender_name,
      forward_date |-> m.forward_date,
      is_automatic_forward |-> m.is_automatic_forward,
      forward_origin |-> m.forward_origin, photo |-> p, document |-> d] :
        m \in {i \in ImageMessages : i.forward_date = None},
        p \in Opt({<<"small", "large">>}),
        d \in Opt({[file_name |-> Some("ticket.PNG"), mime_type |-> None],
                   [file_name |-> Some("notas.pdf"),
                    mime_type |-> Some("application/pdf")],
                   [file_name |-> None, mime_type |-> Some("image/webp")]})}

\* the gate of bot_notion.py: is_forwarded and self.notion_service
notion_gate_on_service(n, fi) == fi.is_forwarded /\ n.service # None

\* self.notion_enabled and message_data["forwarding"]["is_forwarded"]
notion_gate(n, fi) == n.enabled /\ fi.is_forwarded

InitHybrid ==
    /\ bot = "hybrid"
    /\ message = None
    /\ pc = "start"
    /\ sender = None
    /\ forwarding = None
    /\ tipster_name = None
    /\ forward_response = None
    /\ previous = None
    /\ replies = <<>>
    /\ notion \in {NotionEnv(a, t, d) :
                       a \in BOOLEAN, t \in Opt(Tokens), d \in Opt(DatabaseIds)}
    /\ notion_result = None
    /\ calls = 0
    /\ steps = <<>>
    /\ page = None

\* TelegramBotHybrid.__init__: the service is fetched only with a real token,
\* notion_enabled is set only when test_connection() returned True, and any
\* exception leaves both as they were
HybridConstruct ==
    /\ pc = "start"
    /\ IF /\ notion.available
          /\ StrTruthy(notion.token)
          /\ notion.token[1] # "tu_token_de_notion_aqui"
       THEN LET got == get_notion_service(notion)
            IN  IF got.raised THEN notion' = got
                ELSE \E ok \in BOOLEAN :
                        notion' = [got EXCEPT !.connection = Some(ok),
                                              !.enabled = ok]
       ELSE notion' = notion
    /\ pc' = "idle"
    /\ UNCHANGED <<bot, message, sender, forwarding, tipster_name,
                   forward_response, previous, replies, notion_result, calls,
                   steps, page>>

ReceiveHybrid == ReceiveFrom(HybridMessages)

\* has_image = self._is_image_file(message)
\* if has_image: image_path = await self._download_image(...)
DownloadHybrid ==
    /\ pc = "analyzed"
    /\ IF is_image_file(message[1])
       THEN \E ok \in BOOLEAN :
               steps' = Append(steps,
                   IF ok
                   THEN StepEntry("download", Some(generate_filename(message[1])),
                                  None, Some(generate_filename(message[1])), FALSE)
                   ELSE StepEntry("download", Some("imagen"), None, None, FALSE))
       ELSE steps' = steps
    /\ pc' = "downloaded"
    /\ UNCHANGED <<bot, message, sender, forwarding, tipster_name,
                   forward_response, previous, replies, notion, notion_result,
                   calls, page>>

\* notion_result = None
\* if self.notion_enabled and ...is_forwarded:
\*     notion_result = await self._send_to_notion(message_data, image_path)
SendToNotion ==
    /\ pc = "downloaded"
    /\ IF notion_gate(notion, forwarding[1])
       THEN IF notion.service = None
            THEN /\ notion_result' = None
                 /\ UNCHANGED <<calls, tipster_name>>
            ELSE /\ tipster_name' = Some(Hybrid_get_tipster_name(forwarding[1]))
                 /\ calls' = calls + 1
                 /\ \E page_id \in Opt(PageIds) :
                        notion_result' = Some(page_id # None)
       ELSE /\ notion_result' = None
            /\ UNCHANGED <<calls, tipster_name>>
    /\ pc' = "sent"
    /\ UNCHANGED <<bot, message, sender, forwarding, forward_response,
                   previous, replies, notion, steps, page>>

\* the response is built and await message.reply_text(response) delivers it
ReplyText ==
    /\ pc = "sent"
    /\ forward_response' = Some(Hybrid_format_forward_response(forwarding[1]))
    /\ replies' = Append(replies,
           (IF steps # <<>>
            THEN "[ok] Imagen descargada: " \o steps[1].filename[1]
            ELSE "[ok] Mensaje procesado")
           \o forward_response'[1]
           \o (IF notion_result = Some(TRUE)
               THEN "\n[note] Guardado en Notion: [ok]"
               ELSE IF notion_result = Some(FALSE) /\ notion.enabled
               THEN "\n[note] Guardado en Notion: [x]"
               ELSE ""))
    /\ pc' = "replied"
    /\ UNCHANGED <<bot, message, sender, forwarding, tipster_name, previous,
                   notion, notion_result, calls, steps, page>>

\* await message.reply_text(response) raises: nothing is delivered
ReplyTextRaises ==
    /\ pc = "sent"
    /\ forward_response' = Some(Hybrid_format_forward_response(forwarding[1]))
    /\ pc' = "raised"
    /\ UNCHANGED <<bot, message, sender, forwarding, tipster_name, previous,
                   replies, notion, notion_result, calls, steps, page>>

\* self._log_message_info(message_data, has_image, notion_result) returns
LogMessageInfo ==
    /\ pc = "replied"
    /\ pc' = "handled"
    /\ UNCHANGED <<bot, message, sender, forwarding, tipster_name,
                   forward_response, previous, replies, notion, notion_result,
                   calls, steps, page>>

\* _log_message_info has no try of its own: a print or json.dumps that raises
\* reaches the except branch of process_message
LogRaises ==
    /\ pc = "replied"
    /\ pc' = "raised"
    /\ UNCHANGED <<bot, message, sender, forwarding, tipster_name,
                   forward_response, previous, replies, notion, notion_result,
                   calls, steps, page>>

\* the reply_text of the except branch raises as well: nothing is delivered
\* and the exception leaves process_message
ReplyErrorRaises ==
    /\ pc = "raised"
    /\ pc' = "failed"
    /\ UNCHANGED <<bot, message, sender, forwarding, tipster_name,
                   forward_response, previous, replies, notion, notion_result,
                   calls, steps, page>>

\* process_message is over, by return or by an exception
ReturnHybrid ==
    /\ pc \in {"handled", "failed"}
    /\ pc' = "idle"
    /\ message' = None
    /\ sender' = None
    /\ forwarding' = None
    /\ tipster_name' = None
    /\ forward_response' = None
    /\ replies' = <<>>
    /\ notion_result' = None
    /\ calls' = 0
    /\ steps' = <<>>
    /\ UNCHANGED <<bot, previous, notion, page>>

NextHybrid ==
    \/ HybridConstruct
    \/ ReceiveHybrid
    \/ AnalyzeForwardOrigin
    \/ AnalyzeRaises
    \/ DownloadHybrid
    \/ SendToNotion
    \/ ReplyText
    \/ ReplyTextRaises
    \/ LogMessageInfo
    \/ LogRaises
    \/ ReplyError
    \/ ReplyErrorRaises
    \/ ReturnHybrid

SpecHybrid == InitHybrid /\ [][NextHybrid]_vars

(***************************************************************************)
(* Properties                                                              *)
(***************************************************************************)
\* the analysis of the current message has returned
Analyzed == pc \in {"analyzed", "named", "formatted"}

\* the six forwarding signals of a message; a signal is present when its
\* field holds a value that is neither None, nor the empty string, nor False
SignalForwardFrom(m) == m.forward_from # None

SignalForwardFromChat(m) == m.forward_from_chat # None

SignalForwardSenderName(m) ==
    m.forward_sender_name # None /\ m.forward_sender_name # Some("")

SignalForwardDate(m) == m.forward_date # None

SignalForwardOrigin(m) == m.forward_origin # None

SignalAutomaticForward(m) == m.is_automatic_forward = Some(TRUE)

AnySignal(m) ==
    \/ SignalForwardFrom(m)
    \/ SignalForwardFromChat(m)
    \/ SignalForwardSenderName(m)
    \/ SignalForwardDate(m)
    \/ SignalForwardOrigin(m)
    \/ SignalAutomaticForward(m)

\* C1: after _analyze_forward_origin, is_forwarded is true exactly when at
\* least one of the six signals forward_from, forward_from_chat,
\* forward_sender_name, forward_date, forward_origin, is_automatic_forward is
\* present, so each signal alone suffices and none of them gives false.
C1_IsForwardedIffAnySignal ==
    Analyzed => (forwarding[1].is_forwarded <=> AnySignal(message[1]))

\* a message whose single signal is the legacy forward_date has been analysed
C1_Witness ==
    /\ Analyzed
    /\ SignalForwardDate(message[1])
    /\ ~SignalForwardFrom(message[1])
    /\ ~SignalForwardFromChat(message[1])
    /\ ~SignalForwardSenderName(message[1])
    /\ ~SignalForwardOrigin(message[1])
    /\ ~SignalAutomaticForward(message[1])
    /\ forwarding[1].is_forwarded

\* C2: for a message with no forwarding signal the resolver yields
\* is_forwarded = false and no unique_identifier, _get_tipster_name returns
\* "Usuario directo" and _format_forward_response returns the empty string.
C2_DirectMessage ==
    (Analyzed /\ ~AnySignal(message[1])) =>
        /\ ~forwarding[1].is_forwarded
        /\ forwarding[1].unique_identifier = None
        /\ tipster_name # None => tipster_name = Some("Usuario directo")
        /\ forward_response # None => forward_response = Some("")

\* a message without signal (its sender name is the empty string, its
\* automatic-forward flag is False) went through the three functions
C2_Witness ==
    /\ pc = "formatted"
    /\ bot = "hybrid"
    /\ ~AnySignal(message[1])
    /\ message[1].forward_sender_name = Some("")
    /\ message[1].is_automatic_forward = Some(FALSE)
    /\ tipster_name = Some("Usuario directo")
    /\ forward_response = Some("")

\* C3: for a message whose only forwarding signal is is_automatic_forward =
\* true, the resolver yields is_forwarded = true and no unique_identifier.
C3_AutomaticForwardOnly ==
    (/\ Analyzed
     /\ SignalAutomaticForward(message[1])
     /\ ~SignalForwardFrom(message[1])
     /\ ~SignalForwardFromChat(message[1])
     /\ ~SignalForwardSenderName(message[1])
     /\ ~SignalForwardDate(message[1])
     /\ ~SignalForwardOrigin(message[1])) =>
        /\ forwarding[1].is_forwarded
        /\ forwarding[1].unique_identifier = None

\* an automatic forward without any origin data has been analysed
C3_Witness ==
    /\ Analyzed
    /\ message[1].forward_from = None
    /\ message[1].forward_from_chat = None
    /\ message[1].forward_sender_name = None
    /\ message[1].forward_date = None
    /\ message[1].is_automatic_forward = Some(TRUE)
    /\ message[1].forward_origin = None
    /\ forwarding[1].is_forwarded

\* the chat fields of an OriginInfo are all absent
NoChatFields(info) ==
    /\ info.origin_chat_id = None
    /\ info.origin_chat_title = None
    /\ info.origin_chat_username = None

\* a hidden-user name is carried by the origin
HasHiddenName(fo) == fo.sender_user_name # None /\ fo.sender_user_name # Some("")

\* C4: the modern origin is dispatched user > hidden-user name > chat and
\* only the first matching case populates OriginInfo, also when the origin
\* carries several shapes: with a sender user the chat fields stay absent and
\* the hidden name is ignored (the name is the user's own); with only a
\* hidden name, id, username and chat fields stay absent; the chat fields
\* are populated only when neither a sender user nor a hidden name is there.
C4_OriginDispatchPriority ==
    (Analyzed /\ message[1].forward_origin # None) =>
        LET fo == message[1].forward_origin[1]
            info == forwarding[1].origin_info
        IN  /\ fo.sender_user # None =>
                /\ info.origin_sender_user_id = Some(fo.sender_user[1].id)
                /\ info.origin_sender_username = fo.sender_user[1].username
                /\ info.origin_sender_name \in {Some("Ana"), Some("")}
                /\ fo.sender_user[1].first_name = None =>
                       info.origin_sender_name = Some("")
                /\ NoChatFields(info)
            /\ (fo.sender_user = None /\ HasHiddenName(fo)) =>
                /\ info.origin_sender_name = fo.sender_user_name
                /\ info.origin_sender_user_id = None
                /\ info.origin_sender_username = None
                /\ NoChatFields(info)
            /\ ~NoChatFields(info) =>
                /\ fo.sender_user = None
                /\ ~HasHiddenName(fo)
                /\ fo.chat # None
                /\ info.origin_chat_id = Some(fo.chat[1].id)
                /\ info.origin_sender_user_id = None
                /\ info.origin_sender_name = None
                /\ info.origin_sender_username = None

\* an origin carrying a sender user, a hidden name and a chat at once has been
\* analysed and only the user populated the OriginInfo
C4_Witness ==
    /\ Analyzed
    /\ message[1].forward_origin # None
    /\ message[1].forward_origin[1].sender_user # None
    /\ message[1].forward_origin[1].sender_user[1].first_name = None
    /\ message[1].forward_origin[1].sender_user_name = Some("Juan Privado")
    /\ message[1].forward_origin[1].chat # None
    /\ forwarding[1].origin_info.origin_sender_name = Some("")
    /\ NoChatFields(forwarding[1].origin_info)

\* s consists of the segment seg alone, or begins with seg followed by "_"
FirstSegmentIs(s, seg) == s = seg \/ StartsWith(s, seg \o "_")

\* C5: for a forwarded message whose modern origin carries a sender user,
\* whatever the value of that user's id, unique_identifier begins with the
\* segment USER_<id> and contains no PRIVATE_ or CHAT_ segment.
C5_UserSegmentForEveryId ==
    (/\ Analyzed
     /\ message[1].forward_origin # None
     /\ message[1].forward_origin[1].sender_user # None) =>
        /\ forwarding[1].unique_identifier # None
        /\ FirstSegmentIs(forwarding[1].unique_identifier[1],
               "USER_" \o ToString(message[1].forward_origin[1].sender_user[1].id))
        /\ ~Contains(forwarding[1].unique_identifier[1], "PRIVATE_")
        /\ ~Contains(forwarding[1].unique_identifier[1], "CHAT_")

\* hashlib.md5(name.encode('utf-8')).hexdigest()[:8] of the hidden names, as
\* printed by the Python interpreter
ReferenceHash(name) ==
    IF name = "Juan Privado" THEN "5f01b4da"
    ELSE IF name = "Ana" THEN "9aba45a7"
    ELSE "--------"

IsHexString(h) == \A i \in 1..Len(h) : Contains(HexDigits, SubSeq(h, i, i))

\* C6: for a forwarded message with no origin sender id and a non-empty
\* origin sender name, the identity segment of unique_identifier is PRIVATE_
\* followed by exactly 8 hexadecimal characters, the first 8 hex characters
\* of the MD5 of the name's UTF-8 bytes: a function of the name alone.
C6_PrivateSegmentIsNameHash ==
    (/\ Analyzed
     /\ forwarding[1].is_forwarded
     /\ forwarding[1].origin_info.origin_sender_user_id = None
     /\ forwarding[1].origin_info.origin_sender_name # None
     /\ forwarding[1].origin_info.origin_sender_name # Some("")) =>
        LET name == forwarding[1].origin_info.origin_sender_name[1]
            uid == forwarding[1].unique_identifier
        IN  /\ uid # None
            /\ StartsWith(uid[1], "PRIVATE_")
            /\ Len(uid[1]) >= 16
            /\ IsHexString(SubSeq(uid[1], 9, 16))
            /\ Len(uid[1]) > 16 => SubSeq(uid[1], 17, 17) = "_"
            /\ FirstSegmentIs(uid[1], "PRIVATE_" \o ReferenceHash(name))

\* a hidden-user origin named "Juan Privado" with a date has been analysed
C6_Witness ==
    /\ Analyzed
    /\ message[1].forward_origin # None
    /\ message[1].forward_origin[1].sender_user = None
    /\ message[1].forward_origin[1].sender_user_name = Some("Juan Privado")
    /\ message[1].forward_origin[1].date # None
    /\ forwarding[1].unique_identifier = Some("PRIVATE_5f01b4da_DATE_2024-03-01")

\* the number of identity segments found in an identifier
IdentitySegments(s) ==
    (IF Contains(s, "USER_") THEN 1 ELSE 0)
    + (IF Contains(s, "PRIVATE_") THEN 1 ELSE 0)
    + (IF Contains(s, "CHAT_") THEN 1 ELSE 0)

\* C7: unique_identifier has at most one identity segment, chosen by the
\* chain USER_ (sender id) > PRIVATE_ (sender name) > CHAT_ (chat id); a
\* CHAT_<chat_id> segment is produced exactly when the message is forwarded,
\* the origin chat id is present and neither an origin sender id nor an
\* origin sender name is present; USER_ is chosen whenever the sender id is
\* present.
C7_IdentityChain ==
    Analyzed =>
        LET info == forwarding[1].origin_info
            uid == forwarding[1].unique_identifier
        IN  /\ uid # None => IdentitySegments(uid[1]) <= 1
            /\ (uid # None /\ StartsWith(uid[1], "CHAT_")) <=>
                   (/\ forwarding[1].is_forwarded
                    /\ info.origin_chat_id # None
                    /\ info.origin_sender_user_id = None
                    /\ info.origin_sender_name \in {None, Some("")})
            /\ (uid # None /\ StartsWith(uid[1], "CHAT_")) =>
                   FirstSegmentIs(uid[1], "CHAT_" \o ToString(info.origin_chat_id[1]))
            /\ info.origin_sender_user_id # None =>
                   (uid # None /\ StartsWith(uid[1], "USER_"))

\* the calendar day of the timestamps of the model, written out
DateText(d) ==
    IF d.year = 987 THEN "0987-12-31" ELSE "2024-03-0" \o ToString(d.day)

\* the timestamp the date segment must come from: the origin's when the
\* origin has one, otherwise the legacy forward_date
PreferredDate(m) ==
    IF m.forward_origin # None /\ m.forward_origin[1].date # None
    THEN m.forward_origin[1].date
    ELSE m.forward_date

\* C8: for every forwarded message, the segment DATE_<first 10 characters of
\* the ISO date> is the last segment of unique_identifier whenever origin_date
\* or the legacy forward_date is available, with or without an identity
\* segment; origin_date is preferred and forward_date used only without it;
\* segments are joined with "_", a lone date giving exactly DATE_<yyyy-mm-dd>;
\* without any date there is no DATE_ segment.
C8_DateSegment ==
    (Analyzed /\ forwarding[1].is_forwarded) =>
        LET d == PreferredDate(message[1])
            uid == forwarding[1].unique_identifier
        IN  /\ d # None =>
                /\ uid # None
                /\ \/ uid[1] = "DATE_" \o DateText(d[1])
                   \/ /\ EndsWith(uid[1], "_DATE_" \o DateText(d[1]))
                      /\ IdentitySegments(uid[1]) = 1
                /\ IdentitySegments(uid[1]) = 0 => uid[1] = "DATE_" \o DateText(d[1])
            /\ (d = None /\ uid # None) => ~Contains(uid[1], "DATE_")

\* a forward carrying an origin date of 2 March and the legacy date of 31
\* December has been analysed: the origin date is in the identifier
C8_Witness ==
    /\ Analyzed
    /\ message[1].forward_date # None
    /\ message[1].forward_origin # None
    /\ message[1].forward_origin[1].date # None
    /\ message[1].forward_origin[1].date[1].day = 2
    /\ forwarding[1].unique_identifier = Some("CHAT_-100123_DATE_2024-03-02")

\* a forward with the legacy date only: the identifier is the date segment
C8_WitnessLegacyDateOnly ==
    /\ Analyzed
    /\ message[1].forward_origin = None
    /\ forwarding[1].unique_identifier = Some("DATE_0987-12-31")

\* C9: unique_identifier is never the empty string; it is absent exactly
\* when the message is not forwarded or when neither an identity segment nor
\* a date segment was produced, and otherwise it is the non-empty string
\* made of the produced segments.
C9_IdentifierAbsentOrNonEmpty ==
    Analyzed =>
        LET info == forwarding[1].origin_info
            uid == forwarding[1].unique_identifier
            parts == identity_parts(info) \o date_parts(info, message[1])
        IN  /\ uid # Some("")
            /\ uid = None <=> (~forwarding[1].is_forwarded \/ parts = <<>>)
            /\ uid # None =>
                /\ Len(uid[1]) > 0
                /\ Len(parts) = 1 => uid[1] = parts[1]
                /\ Len(parts) = 2 => uid[1] = parts[1] \o "_" \o parts[2]

\* a forwarded message that produced no segment (a chat origin without date)
\* has been analysed and has no identifier
C9_Witness ==
    /\ Analyzed
    /\ forwarding[1].is_forwarded
    /\ message[1].forward_origin # None
    /\ message[1].forward_origin[1].sender_user = None
    /\ message[1].forward_origin[1].sender_user_name = Some("")
    /\ message[1].forward_origin[1].chat = None
    /\ message[1].forward_origin[1].date = None
    /\ message[1].forward_date = None
    /\ forwarding[1].unique_identifier = None

\* C10: the legacy mirrors are populated independently of the modern origin
\* and of each other: legacy_sender is in ForwardInfo iff forward_from is
\* present, legacy_chat iff forward_from_chat is, legacy_sender_name iff
\* forward_sender_name is, each mirroring its field, also when a modern
\* origin carries the same identity.
C10_LegacyMirrors ==
    Analyzed =>
        LET m == message[1]
            fi == forwarding[1]
        IN  /\ fi.legacy_sender # None <=> SignalForwardFrom(m)
            /\ fi.legacy_chat # None <=> SignalForwardFromChat(m)
            /\ fi.legacy_sender_name # None <=> SignalForwardSenderName(m)
            /\ fi.legacy_sender # None =>
                /\ fi.legacy_sender[1].user_id = m.forward_from[1].id
                /\ fi.legacy_sender[1].username = m.forward_from[1].username
            /\ fi.legacy_chat # None =>
                /\ fi.legacy_chat[1].chat_id = m.forward_from_chat[1].id
                /\ fi.legacy_chat[1].title = m.forward_from_chat[1].title
                /\ fi.legacy_chat[1].username = m.forward_from_chat[1].username
            /\ fi.legacy_sender_name # None =>
                   fi.legacy_sender_name = m.forward_sender_name

\* the legacy forward_from user is also the sender user of the modern origin,
\* and the legacy sender is mirrored next to the origin fields
C10_Witness ==
    /\ Analyzed
    /\ message[1].forward_from # None
    /\ message[1].forward_from_chat = None
    /\ message[1].forward_sender_name # None
    /\ message[1].forward_origin # None
    /\ message[1].forward_origin[1].sender_user = message[1].forward_from
    /\ forwarding[1].origin_info.origin_sender_user_id = Some(42)
    /\ forwarding[1].legacy_sender # None
    /\ forwarding[1].legacy_sender[1].user_id = 42
    /\ forwarding[1].legacy_chat = None

\* the identity fields of an OriginInfo are all absent
NoIdentityFields(info) ==
    /\ info.origin_sender_user_id = None
    /\ info.origin_sender_name = None
    /\ info.origin_sender_username = None
    /\ NoChatFields(info)

\* the message has no modern origin and at least one legacy forwarding field
LegacyOnly(m) ==
    /\ ~SignalForwardOrigin(m)
    /\ \/ SignalForwardFrom(m)
       \/ SignalForwardFromChat(m)
       \/ SignalForwardSenderName(m)
       \/ SignalForwardDate(m)

\* of the legacy identities only forward_from_chat is set
LegacyChatOnly(m) ==
    /\ ~SignalForwardOrigin(m)
    /\ SignalForwardFromChat(m)
    /\ ~SignalForwardFrom(m)
    /\ ~SignalForwardSenderName(m)

\* C11 as stated: for every message with legacy forwarding fields and no
\* modern forward_origin, is_forwarded is true and the six identity fields of
\* origin_info are absent, and with only forward_from_chat set
\* _get_tipster_name returns that chat's title.
C11_LegacyOnlyReturnsTitle ==
    (Analyzed /\ LegacyOnly(message[1])) =>
        /\ forwarding[1].is_forwarded
        /\ NoIdentityFields(forwarding[1].origin_info)
        /\ (LegacyChatOnly(message[1]) /\ tipster_name # None) =>
               tipster_name = message[1].forward_from_chat[1].title

\* C11 amended: for every message with legacy forwarding fields and no
\* modern forward_origin, is_forwarded is true and the six identity fields of
\* origin_info are absent; with only forward_from_chat set _get_tipster_name
\* returns that chat's title when the title is a non-empty string, and
\* "Tipster desconocido" when the chat has no title or an empty one.
C11_LegacyOnly ==
    (Analyzed /\ LegacyOnly(message[1])) =>
        /\ forwarding[1].is_forwarded
        /\ NoIdentityFields(forwarding[1].origin_info)
        /\ (LegacyChatOnly(message[1]) /\ tipster_name # None) =>
               IF StrTruthy(message[1].forward_from_chat[1].title)
               THEN tipster_name = message[1].forward_from_chat[1].title
               ELSE tipster_name = Some("Tipster desconocido")

\* a forward from the legacy chat "OldChannel", without origin, sender or
\* sender name, has been named after the chat
C11_Witness ==
    /\ pc = "named"
    /\ LegacyChatOnly(message[1])
    /\ message[1].forward_from_chat[1].title = Some("OldChannel")
    /\ forwarding[1].is_forwarded
    /\ NoIdentityFields(forwarding[1].origin_info)
    /\ tipster_name = Some("OldChannel")

\* the name halves of the model joined by one space and trimmed, written out
JoinedName(u) ==
    IF u.first_name = Some(" Ana") /\ u.last_name = Some("Lopez ") THEN "Ana Lopez"
    ELSE IF u.first_name = Some("Ana") /\ u.last_name = None THEN "Ana"
    ELSE IF u.first_name = None /\ u.last_name = Some("Lopez ") THEN "Lopez"
    ELSE IF u.first_name = None /\ u.last_name = None THEN ""
    ELSE "?"

\* name is the trimmed "first last" of the user u
IsJoinedName(name, u) ==
    /\ name = JoinedName(u)
    /\ name # "" => /\ SubSeq(name, 1, 1) \notin WhiteSpace
                    /\ SubSeq(name, Len(name), Len(name)) \notin WhiteSpace
    /\ (u.first_name = None \/ u.last_name = None) => ~Contains(name, "None")

\* C12: every "first + last" name of the resolver (origin_sender_name of a
\* user origin, legacy_sender.full_name, sender.full_name) is the first and
\* the last name joined by one space, an absent half counting as the empty
\* string, with the surrounding whitespace trimmed: it neither begins nor
\* ends with whitespace and has no "None" for an absent half.
C12_FullNames ==
    Analyzed =>
        LET m == message[1]
        IN  /\ (m.forward_origin # None /\ m.forward_origin[1].sender_user # None) =>
                /\ forwarding[1].origin_info.origin_sender_name # None
                /\ IsJoinedName(forwarding[1].origin_info.origin_sender_name[1],
                                m.forward_origin[1].sender_user[1])
            /\ m.forward_from # None =>
                /\ forwarding[1].legacy_sender # None
                /\ IsJoinedName(forwarding[1].legacy_sender[1].full_name,
                                m.forward_from[1])
            /\ m.from_user # None =>
                /\ sender # None
                /\ IsJoinedName(sender[1].full_name, m.from_user[1])

\* a message sent by " Ana" "Lopez ", forwarded from a legacy user with a
\* first name only, whose origin user has a last name only, has been analysed
C12_Witness ==
    /\ Analyzed
    /\ sender # None
    /\ message[1].from_user[1].first_name = Some(" Ana")
    /\ sender[1].full_name = "Ana Lopez"
    /\ message[1].forward_from # None
    /\ message[1].forward_from[1].last_name = None
    /\ forwarding[1].legacy_sender[1].full_name = "Ana"
    /\ message[1].forward_origin # None
    /\ message[1].forward_origin[1].sender_user # None
    /\ message[1].forward_origin[1].sender_user[1].first_name = None
    /\ forwarding[1].origin_info.origin_sender_name = Some("Lopez")

\* an optional text that is neither absent nor empty, with a prefix
Available(prefix, o) == IF StrTruthy(o) THEN Some(prefix \o o[1]) ELSE None

\* the names a forwarded ForwardInfo offers, in the order of the claim
TipsterCandidates(fi) ==
    <<Available("", fi.origin_info.origin_chat_title),
      Available("@", fi.origin_info.origin_sender_username),
      Available("", fi.origin_info.origin_sender_name),
      IF fi.legacy_chat = None THEN None
      ELSE Available("", fi.legacy_chat[1].title),
      IF fi.legacy_sender = None THEN None
      ELSE Available("@", fi.legacy_sender[1].username),
      IF fi.legacy_sender = None THEN None
      ELSE Available("", Some(fi.legacy_sender[1].full_name)),
      Available("", fi.legacy_sender_name)>>

\* the first candidate that is available, the sentinel when none is
FirstAvailable(c) ==
    IF \E i \in 1..Len(c) : c[i] # None
    THEN c[CHOOSE i \in 1..Len(c) : c[i] # None /\ \A j \in 1..(i - 1) : c[j] = None]
    ELSE Some("Tipster desconocido")

\* C13: for every forwarded ForwardInfo, _get_tipster_name returns the first
\* available of: origin chat title, "@" + origin sender username, origin
\* sender name, legacy chat title, "@" + legacy sender username, legacy sender
\* full name, legacy free-text sender name; "Tipster desconocido" when none
\* is available; a later entry only when every earlier is absent or empty.
C13_TipsterPriority ==
    (tipster_name # None /\ forwarding[1].is_forwarded) =>
        tipster_name = FirstAvailable(TipsterCandidates(forwarding[1]))

\* the origin chat has an empty title, the legacy chat no title, the legacy
\* sender an empty handle and a last name, and a free-text name is there too:
\* the sixth entry, the legacy full name, is returned
C13_Witness ==
    /\ pc = "named"
    /\ forwarding[1].is_forwarded
    /\ forwarding[1].origin_info.origin_chat_title = Some("")
    /\ forwarding[1].legacy_chat # None
    /\ forwarding[1].legacy_chat[1].title = None
    /\ forwarding[1].legacy_sender # None
    /\ forwarding[1].legacy_sender[1].username = Some("")
    /\ forwarding[1].legacy_sender_name = Some("Juan Privado")
    /\ tipster_name = Some("Lopez")

\* every entry is absent or empty and the sentinel is returned
C13_WitnessUnknown ==
    /\ pc = "named"
    /\ forwarding[1].is_forwarded
    /\ forwarding[1].legacy_sender # None
    /\ forwarding[1].legacy_sender[1].full_name = ""
    /\ tipster_name = Some("Tipster desconocido")

\* C14: _get_tipster_name never returns an absent or empty value: for every
\* ForwardInfo, forwarded or not, whatever name, handle and title fields are
\* present, absent or empty, the result is a non-empty string.
C14_TipsterNeverEmpty ==
    pc \in {"named", "formatted"} /\ bot = "hybrid" =>
        tipster_name # None /\ tipster_name[1] # ""

\* a forward whose origin chat title, legacy chat title and legacy full name
\* are all empty strings has been named
C14_Witness ==
    /\ pc = "named"
    /\ forwarding[1].is_forwarded
    /\ forwarding[1].origin_info.origin_chat_title = Some("")
    /\ forwarding[1].legacy_chat # None
    /\ forwarding[1].legacy_chat[1].title = Some("")
    /\ forwarding[1].legacy_sender # None
    /\ forwarding[1].legacy_sender[1].full_name = ""
    /\ forwarding[1].legacy_sender_name = None
    /\ tipster_name = Some("Tipster desconocido")

\* a message that is not a forward has been named
C14_WitnessDirect ==
    /\ pc = "named"
    /\ ~forwarding[1].is_forwarded
    /\ tipster_name = Some("Usuario directo")

\* C15: _format_forward_response returns the empty string iff is_forwarded
\* is false; for every forwarded ForwardInfo, the one without any origin or
\* legacy data included, it returns a non-empty string.
C15_EmptyIffNotForwarded ==
    pc = "formatted" =>
        /\ forward_response # None
        /\ forward_response = Some("") <=> ~forwarding[1].is_forwarded

\* an automatic forward without origin and without legacy data got a reply
C15_Witness ==
    /\ pc = "formatted"
    /\ bot = "hybrid"
    /\ forwarding[1].is_forwarded
    /\ forwarding[1].origin_info = EmptyOriginInfo
    /\ forwarding[1].legacy_sender = None
    /\ forwarding[1].legacy_chat = None
    /\ forwarding[1].legacy_sender_name = None
    /\ forwarding[1].forward_date = None
    /\ forward_response # None
    /\ Len(forward_response[1]) > 0

\* the " (ID: <id>)" ending of the replies of bot_hybrid
IdSuffix(i) == " (ID: " \o ToString(i) \o ")"

\* the reply is the sender-with-id template filled from the origin sender
IsSenderWithIdReply(resp, info) ==
    /\ info.origin_sender_user_id # None
    /\ IF bot = "hybrid"
       THEN \/ resp = "\n[fwd] Reenviado de: @" \o PyStr(info.origin_sender_username)
                      \o IdSuffix(info.origin_sender_user_id[1])
            \/ resp = "\n[fwd] Reenviado de: " \o PyStr(info.origin_sender_name)
                      \o IdSuffix(info.origin_sender_user_id[1])
       ELSE StartsWith(resp, "\n\n[fwd] **Mensaje reenviado de usuario**\n[user] ID: "
                             \o ToString(info.origin_sender_user_id[1]))

\* the reply is the hidden-sender template filled from the origin sender name
IsHiddenSenderReply(resp, info) ==
    /\ info.origin_sender_name # None
    /\ IF bot = "hybrid"
       THEN StartsWith(resp, "\n[fwd] Reenviado de: " \o info.origin_sender_name[1]
                             \o " (privado)")
       ELSE resp = "\n\n[fwd] **Mensaje reenviado**\n[user] Usuario: "
                   \o info.origin_sender_name[1] \o " (perfil privado)"

\* the reply is the origin-chat template filled from the origin chat
IsOriginChatReply(resp, info) ==
    /\ info.origin_chat_id # None
    /\ IF bot = "hybrid"
       THEN /\ EndsWith(resp, IdSuffix(info.origin_chat_id[1]))
            /\ \/ StartsWith(resp, "\n[fwd] Reenviado del canal: @")
               \/ StartsWith(resp, "\n[fwd] Reenviado de: ")
       ELSE StartsWith(resp, "\n\n[fwd] **Mensaje reenviado de canal/grupo**\n[chat] ID: "
                             \o ToString(info.origin_chat_id[1]))

\* C16: for a forwarded ForwardInfo the template is selected by the priority
\* sender-with-id > hidden-sender-name > origin-chat > legacy fallbacks: the
\* sender-with-id template whenever the origin sender id is present; the
\* hidden-sender template only when the id is absent and the origin sender
\* name is present; the origin-chat template only when both are absent and
\* the origin chat id is present; a legacy template only when no modern
\* identity field is present.
C16_TemplatePriority ==
    (pc = "formatted" /\ forwarding[1].is_forwarded) =>
        LET info == forwarding[1].origin_info
            resp == forward_response[1]
        IN  /\ info.origin_sender_user_id # None => IsSenderWithIdReply(resp, info)
            /\ IsHiddenSenderReply(resp, info) =>
                /\ info.origin_sender_user_id = None
                /\ StrTruthy(info.origin_sender_name)
            /\ IsOriginChatReply(resp, info) =>
                /\ info.origin_sender_user_id = None
                /\ ~StrTruthy(info.origin_sender_name)
            /\ ~NoIdentityFields(info) =>
                \/ IsSenderWithIdReply(resp, info)
                \/ IsHiddenSenderReply(resp, info)
                \/ IsOriginChatReply(resp, info)

\* the reply is the legacy free-text-name template (bot_hybrid only; bot_main
\* has no template of its own for the free-text name)
IsLegacyNameReply(resp, fi) ==
    /\ bot = "hybrid"
    /\ fi.legacy_sender_name # None
    /\ StartsWith(resp, "\n[fwd] Reenviado de: " \o fi.legacy_sender_name[1]
                        \o " (privado)")

\* the reply ends with a second line that carries the identifier
EndsWithIdentifierLine(resp, uid) ==
    /\ EndsWith(resp, uid)
    /\ Contains(SubSeq(resp, 2, Len(resp) - Len(uid)), "\n")

\* C17: _format_forward_response puts the unique_identifier in its output
\* only in the hidden-sender-name case and in the legacy free-text-name
\* case, where it is appended on a second line whenever it is present; in
\* the sender-with-id, origin-chat, legacy-sender and legacy-chat cases the
\* identifier does not appear.
C17_IdentifierOnlyForPrivateNames ==
    (/\ pc = "formatted"
     /\ forwarding[1].is_forwarded
     /\ forwarding[1].unique_identifier # None) =>
        LET fi == forwarding[1]
            resp == forward_response[1]
            uid == fi.unique_identifier[1]
        IN  IF \/ IsHiddenSenderReply(resp, fi.origin_info)
               \/ IsLegacyNameReply(resp, fi)
            THEN EndsWithIdentifierLine(resp, uid)
            ELSE ~Contains(resp, uid)

\* C18: the resolver and both formatters are total: for every combination
\* of present and absent optional fields of the message, a legacy user, an
\* origin user or a chat object lacking an id and completely empty metadata
\* included, _analyze_forward_origin, _get_tipster_name and
\* _format_forward_response return a value and never raise.
C18_NeverRaises ==
    /\ pc # "raised"
    /\ pc \in {"analyzed", "named", "formatted"} => forwarding # None
    /\ pc \in {"named", "formatted"} /\ bot = "hybrid" => tipster_name # None
    /\ pc = "formatted" => forward_response # None

\* the modern origin of m is a hidden user named n, with a date
HiddenUserOrigin(m, n) ==
    /\ m.forward_origin # None
    /\ m.forward_origin[1].sender_user = None
    /\ m.forward_origin[1].chat = None
    /\ m.forward_origin[1].sender_user_name = Some(n)
    /\ m.forward_origin[1].date # None

\* two timestamps of the same calendar day
SameDay(d, e) == d.year = e.year /\ d.month = e.month /\ d.day = e.day

\* C20: for any two distinct messages whose modern origin is a hidden user
\* with the same name and whose origin dates fall on the same calendar day,
\* at any time of the day, the two unique_identifier values are equal,
\* whatever the other fields of the two messages are.
C20_SameNameSameDaySameIdentifier ==
    (/\ Analyzed
     /\ previous # None
     /\ previous[1].message # message[1]
     /\ \E n \in OriginSenderNames :
            /\ HiddenUserOrigin(previous[1].message, n)
            /\ HiddenUserOrigin(message[1], n)
     /\ SameDay(previous[1].message.forward_origin[1].date[1],
                message[1].forward_origin[1].date[1])) =>
        forwarding[1].unique_identifier = previous[1].unique_identifier

\* "Juan Privado" forwarded in the morning, with a legacy sender and a legacy
\* date, and again in the last minute of the same day without them: both
\* messages got the same identifier
C20_Witness ==
    /\ Analyzed
    /\ previous # None
    /\ HiddenUserOrigin(previous[1].message, "Juan Privado")
    /\ HiddenUserOrigin(message[1], "Juan Privado")
    /\ previous[1].message.forward_origin[1].date[1].hour = 10
    /\ message[1].forward_origin[1].date[1].hour = 23
    /\ previous[1].message.forward_origin[1].date[1].day = 1
    /\ message[1].forward_origin[1].date[1].day = 1
    /\ previous[1].message.forward_from # None
    /\ previous[1].message.forward_date # None
    /\ message[1].forward_from = None
    /\ message[1].forward_date = None
    /\ previous[1].unique_identifier = Some("PRIVATE_5f01b4da_DATE_2024-03-01")
    /\ forwarding[1].unique_identifier = Some("PRIVATE_5f01b4da_DATE_2024-03-01")

\* the ISO text of the origin timestamps of the model, written out
OriginDateText(d) == DateText(d) \o "T10:00:00+00:00"

\* C21: whenever the modern origin carries a timestamp, origin_date is
\* populated from it, whichever of the three shapes matched and also when no
\* shape matched; origin_date is absent whenever there is no modern origin,
\* even if the legacy forward_date is present.
C21_OriginDatePopulated ==
    Analyzed =>
        LET m == message[1]
            info == forwarding[1].origin_info
        IN  /\ (m.forward_origin # None /\ m.forward_origin[1].date # None) =>
                   info.origin_date = Some(OriginDateText(m.forward_origin[1].date[1]))
            /\ m.forward_origin = None => info.origin_date = None

\* an origin that matches no shape (no sender user, an empty hidden name, no
\* chat) but carries a timestamp has been analysed
C21_Witness ==
    /\ Analyzed
    /\ message[1].forward_origin # None
    /\ message[1].forward_origin[1].sender_user = None
    /\ message[1].forward_origin[1].sender_user_name = Some("")
    /\ message[1].forward_origin[1].chat = None
    /\ NoIdentityFields(forwarding[1].origin_info)
    /\ forwarding[1].origin_info.origin_date = Some("2024-03-02T10:00:00+00:00")

\* a legacy forward with forward_date and no modern origin has no origin_date
C21_WitnessLegacyDate ==
    /\ Analyzed
    /\ message[1].forward_origin = None
    /\ message[1].forward_date # None
    /\ forwarding[1].origin_info.origin_date = None

\* the shape the resolver recognises in an origin, by its priority
ShapeOf(fo) ==
    IF fo.sender_user # None THEN "user"
    ELSE IF HasHiddenName(fo) THEN "hidden_user"
    ELSE IF fo.chat # None THEN "chat"
    ELSE "none"

\* the identity-bearing groups of an OriginInfo
SenderGroup(info) == info.origin_sender_user_id # None

NameOnlyGroup(info) ==
    /\ info.origin_sender_user_id = None
    /\ info.origin_sender_username = None
    /\ info.origin_sender_name # None

ChatGroup(info) == info.origin_chat_id # None

NoSenderFields(info) ==
    /\ info.origin_sender_user_id = None
    /\ info.origin_sender_name = None
    /\ info.origin_sender_username = None

\* the populated group is the one of the shape, filled from the origin
GroupMatchesShape(info, fo) ==
    /\ ShapeOf(fo) = "user" =>
        /\ info.origin_sender_user_id = Some(fo.sender_user[1].id)
        /\ info.origin_sender_name # None
        /\ info.origin_sender_username = fo.sender_user[1].username
        /\ NoChatFields(info)
    /\ ShapeOf(fo) = "hidden_user" =>
        /\ NameOnlyGroup(info)
        /\ info.origin_sender_name = fo.sender_user_name
        /\ NoChatFields(info)
    /\ ShapeOf(fo) = "chat" =>
        /\ info.origin_chat_id = Some(fo.chat[1].id)
        /\ info.origin_chat_title = fo.chat[1].title
        /\ info.origin_chat_username = fo.chat[1].username
        /\ NoSenderFields(info)
    /\ ~(~NoSenderFields(info) /\ ~NoChatFields(info))

\* C22 as stated: in every OriginInfo built for a message with a modern
\* origin exactly one identity-bearing group is populated and it matches the
\* origin shape present (sender id+name+handle for a user origin, name only
\* for a hidden-user origin, chat id+title+handle for a chat origin); sender
\* fields and chat fields are never populated together.
C22_ExactlyOneGroup ==
    (Analyzed /\ message[1].forward_origin # None) =>
        LET info == forwarding[1].origin_info
        IN  /\ SenderGroup(info) \/ NameOnlyGroup(info) \/ ChatGroup(info)
            /\ GroupMatchesShape(info, message[1].forward_origin[1])

\* C22 amended: in every OriginInfo built for a message with a modern origin
\* at most one identity-bearing group is populated; it is exactly one, the
\* group of the shape, when the origin carries a sender user, a non-empty
\* hidden-user name or a chat, and none when the origin carries none of them;
\* sender fields and chat fields are never populated together.
C22_AtMostOneGroup ==
    (Analyzed /\ message[1].forward_origin # None) =>
        LET info == forwarding[1].origin_info
            fo == message[1].forward_origin[1]
        IN  /\ ShapeOf(fo) # "none" =>
                   SenderGroup(info) \/ NameOnlyGroup(info) \/ ChatGroup(info)
            /\ ShapeOf(fo) = "none" => NoIdentityFields(info)
            /\ GroupMatchesShape(info, fo)

\* a chat origin has been analysed: the chat group alone is populated
C22_Witness ==
    /\ Analyzed
    /\ message[1].forward_origin # None
    /\ ShapeOf(message[1].forward_origin[1]) = "chat"
    /\ forwarding[1].origin_info.origin_chat_id = Some(-100123)
    /\ forwarding[1].origin_info.origin_chat_title = Some("Tips Canal")
    /\ NoSenderFields(forwarding[1].origin_info)

\* C23: when a field access inside the forward analysis raises, the calling
\* handler catches it and treats the message as having no forwarding
\* metadata: the exception stays inside the handler and the message is
\* processed as a direct, non-forwarded message, so it gets the reply of a
\* direct message.
C23_RaiseDegradesToDirect ==
    pc = "failed" => replies = <<DirectReply>>

\* presence of the contents of a bot.py message: a photo is present when the
\* tuple has an element, a text or a caption when it is a non-empty string
HasPhoto(m) == m.photo # None /\ m.photo # Some(<<>>)

HasDocument(m) == m.document # None

HasText(m) == m.text # None /\ m.text # Some("")

HasCaption(m) == m.caption # None /\ m.caption # Some("")

\* C24: _get_message_type classifies every message by the fixed priority
\* photo > document > text: "Foto" whenever a photo is present, "Archivo" with
\* a document and no photo, "Texto" with text and neither photo nor
\* document, "Otro" when none of the three is present.
C24_MessageType ==
    (page # None /\ page[1].message_type # None) =>
        LET m == message[1]
            t == page[1].message_type[1]
        IN  /\ HasPhoto(m) => t = "Foto"
            /\ (HasDocument(m) /\ ~HasPhoto(m)) => t = "Archivo"
            /\ (HasText(m) /\ ~HasPhoto(m) /\ ~HasDocument(m)) => t = "Texto"
            /\ (~HasText(m) /\ ~HasPhoto(m) /\ ~HasDocument(m)) => t = "Otro"

\* a message with a photo, a document and a text has been classified as Foto
C24_Witness ==
    /\ page # None
    /\ HasPhoto(message[1])
    /\ HasDocument(message[1])
    /\ HasText(message[1])
    /\ page[1].message_type = Some("Foto")

\* the text t as a title: unchanged up to 50 characters, else its first 50
\* characters followed by "..."
IsTitleOf(title, t) ==
    /\ Len(t) <= 50 => title = t
    /\ Len(t) > 50 => title = SubSeq(t, 1, 50) \o "..."
    /\ Len(title) <= 53

\* the type named by the contents of the message
TypeNameOf(m) ==
    IF HasPhoto(m) THEN "Foto"
    ELSE IF HasDocument(m) THEN "Archivo"
    ELSE IF HasText(m) THEN "Texto"
    ELSE "Otro"

\* C25: _get_title returns the text unchanged when it has 1 to 50 characters
\* and its first 50 characters followed by "..." when it is longer, so a
\* title from text or caption never exceeds 53 characters; the caption is
\* used, with the same truncation, only when the text is absent or empty,
\* and the "<type> - <timestamp>" default only when both are absent.
C25_Title ==
    (page # None /\ page[1].title # None) =>
        LET m == message[1]
            title == page[1].title[1]
        IN  /\ HasText(m) => IsTitleOf(title, m.text[1])
            /\ (~HasText(m) /\ HasCaption(m)) => IsTitleOf(title, m.caption[1])
            /\ (~HasText(m) /\ ~HasCaption(m)) =>
                   \E ts \in Timestamps : title = TypeNameOf(m) \o " - " \o ts
            /\ (HasText(m) \/ HasCaption(m)) =>
                   \A ts \in Timestamps : title # TypeNameOf(m) \o " - " \o ts

\* a text of 51 characters gave a title of 53, its first 50 and "..."
C25_Witness ==
    /\ page # None
    /\ message[1].text = Some(Text51)
    /\ message[1].caption = Some("Caption del documento")
    /\ page[1].title = Some(Text50 \o "...")
    /\ Len(page[1].title[1]) = 53

\* an empty text and a caption: the caption is the title
C25_WitnessCaption ==
    /\ page # None
    /\ message[1].text = Some("")
    /\ page[1].title = Some("Caption del documento")

\* the file lines of a document, written out for the documents of the model
FileLinesOf(d) ==
    IF d.file_name = Some("documento.pdf")
    THEN "\nArchivo: documento.pdf\nTamano: 1024 bytes"
    ELSE "\nArchivo: Sin nombre\nTamano: Desconocido bytes"

\* C26: _get_additional_text returns the text when present, otherwise the
\* caption, otherwise the empty string, followed by the file name and file
\* size lines when the message has a document, or by the "Tipo: Imagen" line
\* when it has a photo and no document; for a text-only message the result
\* equals the text exactly.
C26_AdditionalText ==
    (page # None /\ page[1].additional_text # None) =>
        LET m == message[1]
            body == IF HasText(m) THEN m.text[1]
                    ELSE IF HasCaption(m) THEN m.caption[1]
                    ELSE ""
            tail == IF HasDocument(m) THEN FileLinesOf(m.document[1])
                    ELSE IF HasPhoto(m) THEN "\nTipo: Imagen"
                    ELSE ""
        IN  /\ page[1].additional_text[1] = body \o tail
            /\ (HasText(m) /\ ~HasDocument(m) /\ ~HasPhoto(m)) =>
                   page[1].additional_text = m.text

\* a document with a caption, and a photo next to it: caption and file lines
C26_Witness ==
    /\ page # None
    /\ message[1].text = None
    /\ HasPhoto(message[1])
    /\ page[1].additional_text =
           Some("Caption del documento\nArchivo: documento.pdf\nTamano: 1024 bytes")

\* the names of the steps run so far, in the order they ran
StepNames == [i \in 1..Len(steps) |-> steps[i].step]

StepOrder == <<"extract", "download", "upload", "create">>

\* the error status of a step
ErrorStatusOf(step) ==
    IF step = "download" THEN Status.download_error
    ELSE IF step = "upload" THEN Status.upload_error
    ELSE Status.create_error

\* step i of the log returned None or an empty string
ReturnedNothing(i) ==
    /\ steps[i].step \in {"download", "upload", "create"}
    /\ (steps[i].result = None \/ steps[i].result = Some(""))

\* the status message shows the confirmation
SuccessShown ==
    /\ replies # <<>>
    /\ StartsWith(replies[Len(replies)], "[ok] **Imagen procesada")

C27_WitnessUploadFailed ==
    /\ pc = "image_done"
    /\ Len(steps) = 3
    /\ ReturnedNothing(3)
    /\ replies[Len(replies)] = Status.upload_error

\* the handler is past the Notion gate of the current message
PastGate == pc \in {"sent", "replied", "handled"}

\* C28: in the hybrid bot's process_message create_bet_entry is called for a
\* message iff Notion is enabled and the message's is_forwarded is true: a
\* direct message never creates a Notion record, and with notion_enabled
\* false no message does; notion_enabled is true only if a NotionService was
\* constructed and its connection test succeeded.
C28_NotionGate ==
    /\ calls \in {0, 1}
    /\ PastGate =>
           (calls = 1 <=> (notion.enabled /\ forwarding[1].is_forwarded))
    /\ calls = 1 =>
           (forwarding # None /\ forwarding[1].is_forwarded /\ notion.enabled)
    /\ notion.enabled =>
           /\ notion.service # None
           /\ notion.constructions = 1
           /\ notion.connection = Some(TRUE)

\* a forwarded message with Notion enabled: create_bet_entry was called
C28_Witness ==
    /\ pc = "sent"
    /\ notion.enabled
    /\ forwarding[1].is_forwarded
    /\ calls = 1
    /\ notion_result = Some(TRUE)

\* a forwarded message with the service constructed but the connection test
\* failed: no call
C28_WitnessDisabled ==
    /\ pc = "sent"
    /\ notion.service # None
    /\ ~notion.enabled
    /\ forwarding[1].is_forwarded
    /\ calls = 0

\* C29: for every update that carries a message process_message sends
\* exactly one reply to the user, the success reply or the error reply,
\* never both and never none, whichever of the steps extract, download,
\* Notion send, reply and log fails.
C29_ExactlyOneReply ==
    pc \in {"handled", "failed"} => Len(replies) = 1

\* call i of the log raised
CallRaised(i) == steps[i].raised

\* C30: get_notion_service returns the same NotionService instance on every
\* call once one construction has succeeded, so the service is constructed
\* successfully at most once per process; when construction raises nothing
\* is cached and the next call attempts construction again.
C30_Singleton ==
    pc = "service" =>
        /\ notion.constructions <= 1
        /\ \A i \in 1..Len(steps) : \A j \in (i + 1)..Len(steps) :
               ~CallRaised(i) =>
                   /\ ~CallRaised(j)
                   /\ steps[j].result = steps[i].result
        /\ \A i \in 1..Len(steps) : ~CallRaised(i) => steps[i].result # None
        /\ (steps # <<>> /\ CallRaised(Len(steps))) => notion.service = None
        /\ notion.attempts =
               Cardinality({i \in 1..Len(steps) : CallRaised(i)})
               + notion.constructions

\* a call raised, the next one constructed the service, a third returned
\* the same instance
C30_Witness ==
    /\ pc = "service"
    /\ Len(steps) >= 3
    /\ CallRaised(1)
    /\ ~CallRaised(2)
    /\ ~CallRaised(3)
    /\ steps[3].result = steps[2].result
    /\ notion.constructions = 1
    /\ notion.attempts = 2

====
